---- MODULE Spec2Model ----
(***************************************************************************)
(* Model of the Novastar H client (api.py NovastarClient) and of its       *)
(* coordinator (coordinator.py NovastarCoordinator).                       *)
(*                                                                         *)
(* Every coroutine is one action: the awaits inside it are answered by     *)
(* the device with values drawn from small sets.  A request that fails     *)
(* (_async_request returning None) is the answer NoDetail / an empty list  *)
(* / ok = FALSE.  Python's None for an optional value is the empty         *)
(* sequence <<>>, a present value v is <<v>>.                              *)
(***************************************************************************)
EXTENDS Integers, Sequences, FiniteSets, TLC

\* ------------------------------------------------------------------ bounds
MaxCycles == 13          \* cap on each refresh counter
MaxPolls == 2            \* cap on poll cycles of the coordinator
MaxAudioCycles == 2      \* layer refresh counter up to which an audio input is set
MaxReads == 3            \* cap on the layer list requests of the interleaved tasks
MaxRaceReads == 2        \* the same cap while writes complete between the awaits

\* --------------------------------------------------------- program constants
RefreshPeriod == 12      \* "% 12 == 0" in the three refresh routines
NoPreset == -1           \* current_preset_id default
NoId == -1               \* a list entry whose inputId/layerId is not an int

\* ------------------------------------------------------------------- values
Colls == {"input", "layer"}
Ids == {1, 2}
FieldVals == {"a", "b"}          \* list-level fields that enter the signature
Details == {"d1", "d2"}          \* bodies of input/readDetail, layer/readDetail
NoDetail == "null"               \* a detail request that returned None
NoAudio == <<>>                  \* entry without an audioStatus mapping

Some(v) == <<v>>
IsSome(o) == o # <<>>
Get(f, k) == IF k \in DOMAIN f THEN <<f[k]>> ELSE <<>>

\* One entry of input/readList or layer/detailList.
Entry(i, f, a) == [id |-> i, fields |-> f, audio |-> a]
IsValidId(e) == e.id # NoId

VARIABLES
    detail_cache,            \* [Colls -> [subset of Ids -> Details]]
    signature_cache,         \* [Colls -> [subset of Ids -> signature]]
    refresh_counter,         \* [Colls -> Nat]
    force_refresh_details,   \* [Colls -> BOOLEAN]
    last_preset_id,          \* <<>> or <<id>>
    background_list_cache,   \* sequence of background ids
    background_refresh_counter,
    force_refresh_backgrounds,
    ftb_active,              \* coordinator._ftb_active
    freeze_active,           \* coordinator._freeze_active
    data,                    \* coordinator.data: <<>> or <<snapshot>>
    published,               \* what async_set_updated_data / a refresh last gave the listeners
    refreshed,               \* async_setup_entry has run the first refresh
    ev,                      \* the operation that just completed
    lastList,                \* [Colls -> <<>> or <<list of the last cycle>>]
    lastClean,               \* [Colls -> no detail fetch failed in the last cycle]
    writePending,            \* [Colls -> a write succeeded since the last refresh]
    lastWritten,             \* [ftb, freeze]: value of the last successful coordinator write
    sinceFetch,              \* [Colls -> [Ids -> cycles listed in a row without a detail fetch]]
    live,                    \* the collection whose list endpoint answers (SpecCache)
    flight,                  \* [Tasks -> locals of a layer refresh suspended at an await]
    reads,                   \* order of the list reads and of the stores made from them
    scan,                    \* discovery.scan_network under way: its tasks and semaphore
    call                     \* a function of the client applied to given arguments: [fn, args, out]

clientVars == <<detail_cache, signature_cache, refresh_counter,
                force_refresh_details, last_preset_id, background_list_cache,
                background_refresh_counter, force_refresh_backgrounds>>
coordVars == <<ftb_active, freeze_active, data, published, refreshed>>
taskVars == <<flight, reads, scan>>
histVars == <<ev, lastList, lastClean, writePending, lastWritten, sinceFetch, live>>
vars == <<clientVars, coordVars, histVars, taskVars, call>>

\* ---------------------------------------------------------------- signatures
\* json.dumps of the list-level fields; the layer signature also covers
\* layerId and audioStatus, the input signature does not cover inputId.
_input_signature(e) == <<e.fields>>
_layer_signature(e) == <<e.id, e.fields, e.audio>>
Signature(c, e) == IF c = "input" THEN _input_signature(e) ELSE _layer_signature(e)

ShouldRefreshDetail_Always(force, periodic, cached, signature) == TRUE
ShouldRefreshDetail_NoPeriodic(force, periodic, cached, signature) ==
    force \/ cached # Some(signature)
\* should_refresh_detail
ShouldRefreshDetail(force, periodic, cached, signature) ==
    force \/ periodic \/ cached # Some(signature)

\* merged record: the list entry overlaid with the cached detail, if any
Merge(c, e, cached_detail) ==
    [id |-> e.id, fields |-> e.fields, audio |-> e.audio,
     detail |-> IF IsSome(cached_detail) THEN cached_detail[1] ELSE NoDetail]

SortKey_Constant(m) == 0
\* list.sort(key=item.get(id, 0)): stable insertion sort, missing id sorts as 0
SortKey(m) == IF m.id = NoId THEN 0 ELSE m.id
RECURSIVE InsertSorted(_, _)
InsertSorted(s, m) ==
    IF s = <<>> THEN <<m>>
    ELSE IF SortKey(s[Len(s)]) <= SortKey(m) THEN Append(s, m)
    ELSE Append(InsertSorted(SubSeq(s, 1, Len(s) - 1), m), s[Len(s)])
RECURSIVE SortById(_)
SortById(s) ==
    IF s = <<>> THEN <<>>
    ELSE InsertSorted(SortById(SubSeq(s, 1, Len(s) - 1)), s[Len(s)])

\* The for loop over the list entries.  resp[k] is the device's answer to the
\* detail request for entry k, used only when the request is sent.
RECURSIVE RefreshLoop(_, _, _, _, _, _, _)
RefreshLoop(c, entries, resp, k, force, periodic, acc) ==
    IF k > Len(entries) THEN acc
    ELSE
      LET e == entries[k] IN
      IF ~IsValidId(e)
      THEN RefreshLoop(c, entries, resp, k + 1, force, periodic,
               [acc EXCEPT !.merged = Append(@, Merge(c, e, <<>>))])
      ELSE
        LET signature == Signature(c, e)
            cached_signature == Get(acc.sig, e.id)
            should == ShouldRefreshDetail(force, periodic, cached_signature, signature)
            ok == should /\ resp[k] # NoDetail
            det == IF ok THEN (e.id :> resp[k]) @@ acc.detail ELSE acc.detail
            sig == IF ok THEN (e.id :> signature) @@ acc.sig ELSE acc.sig
        IN RefreshLoop(c, entries, resp, k + 1, force, periodic,
               [detail |-> det,
                sig |-> sig,
                seen |-> acc.seen \cup {e.id},
                merged |-> Append(acc.merged, Merge(c, e, Get(det, e.id))),
                fetched |-> IF should THEN acc.fetched \cup {e.id} ELSE acc.fetched,
                failed |-> IF should /\ ~ok THEN acc.failed \cup {e.id} ELSE acc.failed])

Restrict(f, S) == [k \in (DOMAIN f) \cap S |-> f[k]]

StalePrune_DetailOnly(detail, sig, seen) ==
    [detail |-> Restrict(detail, seen), sig |-> sig]
StalePrune_Never(detail, sig, seen) == [detail |-> detail, sig |-> sig]
\* "Remove cache entries for inputs that no longer exist"
StalePrune(detail, sig, seen) ==
    LET stale_ids == (DOMAIN detail) \ seen
    IN [detail |-> Restrict(detail, (DOMAIN detail) \ stale_ids),
        sig |-> Restrict(sig, (DOMAIN sig) \ stale_ids)]

IsPeriodic(counter) == counter % RefreshPeriod = 0

FinishCycle_KeepFlag(counter, force_refresh, acc) ==
    LET pruned == StalePrune(acc.detail, acc.sig, acc.seen)
    IN [detail |-> pruned.detail, sig |-> pruned.sig, counter |-> counter,
        force |-> force_refresh, merged |-> SortById(acc.merged),
        fetched |-> acc.fetched, failed |-> acc.failed,
        cycle |-> TRUE, forced |-> force_refresh, periodic |-> IsPeriodic(counter)]
\* The end of a refresh cycle: stale pruning, the sort, the reset flag.
FinishCycle(counter, force_refresh, acc) ==
    LET pruned == StalePrune(acc.detail, acc.sig, acc.seen)
    IN [detail |-> pruned.detail, sig |-> pruned.sig, counter |-> counter,
        force |-> FALSE, merged |-> SortById(acc.merged),
        fetched |-> acc.fetched, failed |-> acc.failed,
        cycle |-> TRUE, forced |-> force_refresh, periodic |-> IsPeriodic(counter)]

GetWithDetails_CountEmpty(c, st, entries, resp) ==
    FinishCycle(st.counter + 1, st.force,
        RefreshLoop(c, entries, resp, 1, st.force, IsPeriodic(st.counter + 1),
            [detail |-> st.detail, sig |-> st.sig, seen |-> {},
             merged |-> <<>>, fetched |-> {}, failed |-> {}]))
\* async_get_inputs_with_details / async_get_layers_with_details as a function
\* of the client state st = [detail, sig, counter, force] of collection c, of
\* the list response and of the detail responses.
GetWithDetails(c, st, entries, resp) ==
    IF entries = <<>>
    THEN [detail |-> st.detail, sig |-> st.sig, counter |-> st.counter,
          force |-> st.force, merged |-> <<>>, fetched |-> {}, failed |-> {},
          cycle |-> FALSE, forced |-> FALSE, periodic |-> FALSE]
    ELSE FinishCycle(st.counter + 1, st.force,
             RefreshLoop(c, entries, resp, 1, st.force, IsPeriodic(st.counter + 1),
                 [detail |-> st.detail, sig |-> st.sig, seen |-> {},
                  merged |-> <<>>, fetched |-> {}, failed |-> {}]))

CollState(c) == [detail |-> detail_cache[c], sig |-> signature_cache[c],
                 counter |-> refresh_counter[c], force |-> force_refresh_details[c]]

ValidIds(entries) == {entries[k].id : k \in {j \in DOMAIN entries : IsValidId(entries[j])}}

\* ------------------------------------------------------------- construction
NoEvent ==
    [op |-> "init", arg |-> 0, writeOk |-> FALSE, ret |-> FALSE, raised |-> FALSE,
     list |-> [c \in Colls |-> <<>>],
     cycle |-> [c \in Colls |-> FALSE],
     fetched |-> [c \in Colls |-> {}],
     failed |-> [c \in Colls |-> {}],
     forced |-> [c \in Colls |-> FALSE],
     periodic |-> [c \in Colls |-> FALSE],
     same |-> [c \in Colls |-> FALSE],
     prevClean |-> [c \in Colls |-> FALSE],
     owed |-> [c \in Colls |-> FALSE],
     dropped |-> [c \in Colls |-> {}],
     pruned |-> [c \in Colls |-> {}],
     merged |-> [c \in Colls |-> <<>>], coll |-> "none",
     afterForced |-> [c \in Colls |-> FALSE],
     presetChanged |-> FALSE, req |-> FALSE, verified |-> <<>>,
     requested |-> FALSE, returned |-> <<>>]

\* The coroutines that run async_get_layers_with_details on one client: the
\* coordinator's refresh and a call of async_set_audio_input.
Tasks == {"poll", "audio"}
\* the locals of async_get_layers_with_details; pc is the await it is at;
\* owed: a write had succeeded and no cycle had read the flag since when this
\* cycle read it; fetched: the ids whose detail this cycle has requested;
\* began: the coordinator's tracked flags when its refresh called get_state
IdleTask ==
    [pc |-> "idle", entries |-> <<>>, k |-> 0, force |-> FALSE, periodic |-> FALSE,
     seen |-> {}, merged |-> <<>>, signature |-> <<>>, readNo |-> 0,
     owed |-> FALSE, fetched |-> {}, began |-> <<>>]
\* started/answered: list requests sent and answered so far; stored[i]: the
\* list read from which the cache entry of id i was last written; stale: an
\* entry was written from an older list read than the one it replaced
NoReads == [started |-> 0, answered |-> 0, stored |-> [i \in Ids |-> 0],
            stale |-> FALSE]

\* no scan_network call has been made
NoScan == [pc |-> "idle", hosts |-> <<>>, status |-> <<>>, probes |-> <<>>,
           value |-> 0, results |-> <<>>, discovered |-> <<>>]

\* NovastarClient.__init__ and NovastarCoordinator.__init__
Constructed ==
    /\ detail_cache = [c \in Colls |-> <<>>]
    /\ signature_cache = [c \in Colls |-> <<>>]
    /\ refresh_counter = [c \in Colls |-> 0]
    /\ force_refresh_details = [c \in Colls |-> FALSE]
    /\ last_preset_id = <<>>
    /\ background_list_cache = <<>>
    /\ background_refresh_counter = 0
    /\ force_refresh_backgrounds = FALSE
    /\ ftb_active = FALSE
    /\ freeze_active = FALSE
    /\ data = <<>>
    /\ published = <<>>
    /\ refreshed = FALSE
    /\ ev = NoEvent
    /\ lastList = [c \in Colls |-> <<>>]
    /\ lastClean = [c \in Colls |-> TRUE]
    /\ writePending = [c \in Colls |-> FALSE]
    /\ lastWritten = [ftb |-> FALSE, freeze |-> FALSE]
    /\ sinceFetch = [c \in Colls |-> [i \in Ids |-> 0]]
    /\ flight = [t \in Tasks |-> IdleTask]
    /\ reads = NoReads
    /\ scan = NoScan

\* no function call is under way
NoCall == [fn |-> "none", args |-> <<>>, out |-> <<>>]
Init == Constructed /\ live = "input" /\ call = NoCall
\* the device answers the list requests of one collection only
InitLive == Constructed /\ live \in Colls /\ call = NoCall

\* ------------------------------------------------------- device responses
ClosedAudio == <<0, 0>>          \* audioStatus {isAvailable: 0, isOpen: 0}
AudioOf(c) == IF c = "input" THEN NoAudio ELSE ClosedAudio

\* list responses: <<>> is an empty or failed list read; the last one is out
\* of id order and starts with an entry that has no integer id
ListResponses(c) ==
    LET a == AudioOf(c) IN
    { <<>>,
      <<Entry(1, "a", a)>>,
      <<Entry(1, "b", a)>>,
      <<Entry(1, "a", a), Entry(2, "a", a)>>,
      <<Entry(NoId, "a", a), Entry(2, "b", a), Entry(1, "a", a)>> }

\* in SpecCache the list endpoint of the other collection returns nothing
LiveListResponses(c) == IF c = live THEN ListResponses(c) ELSE {<<>>}

\* one answer per detail request; no request is sent for an entry without id
DetailResponses(entries, answers) ==
    {r \in [1..Len(entries) -> answers \cup {NoDetail}] :
        \A k \in 1..Len(entries) : ~IsValidId(entries[k]) => r[k] = NoDetail}

\* ------------------------------------------------------------ client actions
\* the part of an event that a refresh of collection c fills in
RefreshEvent(e, c, entries, r) ==
    [e EXCEPT !.list[c] = entries, !.cycle[c] = r.cycle, !.fetched[c] = r.fetched,
              !.failed[c] = r.failed, !.merged[c] = r.merged,
              !.afterForced[c] = (ev.cycle[c] /\ ev.forced[c]),
              !.forced[c] = r.forced, !.periodic[c] = r.periodic,
              !.same[c] = (lastList[c] = Some(entries)),
              !.prevClean[c] = lastClean[c],
              !.owed[c] = writePending[c],
              !.dropped[c] = IF IsSome(lastList[c])
                             THEN ValidIds(lastList[c][1]) \ ValidIds(entries) ELSE {},
              !.pruned[c] = (DOMAIN detail_cache[c]) \ (DOMAIN r.detail)]

\* for each id, the number of cycles with a non-empty list in a row in which
\* it was listed and no detail request was sent for it
Unfetched(n, entries, r) ==
    IF ~r.cycle THEN n
    ELSE [i \in Ids |-> IF i \in ValidIds(entries) /\ i \notin r.fetched
                        THEN n[i] + 1 ELSE 0]

\* async_get_inputs_with_details(), async_get_layers_with_details()
GetWithDetailsAction(c, entries, resp, track) ==
    \E r \in {GetWithDetails(c, CollState(c), entries, resp)} :
    /\ detail_cache' = [detail_cache EXCEPT ![c] = r.detail]
    /\ signature_cache' = [signature_cache EXCEPT ![c] = r.sig]
    /\ refresh_counter' = [refresh_counter EXCEPT ![c] = r.counter]
    /\ force_refresh_details' = [force_refresh_details EXCEPT ![c] = r.force]
    /\ ev' = RefreshEvent([NoEvent EXCEPT !.op = "get_with_details", !.coll = c],
                           c, entries, r)
    /\ lastList' = [lastList EXCEPT ![c] = Some(entries)]
    /\ lastClean' = [lastClean EXCEPT ![c] = (r.failed = {})]
    /\ writePending' = [writePending EXCEPT ![c] = FALSE]
    /\ sinceFetch' = IF track THEN [sinceFetch EXCEPT ![c] = Unfetched(@, entries, r)]
                   ELSE sinceFetch
    /\ UNCHANGED <<live, taskVars, call, lastWritten, last_preset_id, background_list_cache,
                   background_refresh_counter, force_refresh_backgrounds, coordVars>>

GetInputsWithDetails ==
    /\ refresh_counter["input"] < MaxCycles
    /\ \E entries \in LiveListResponses("input") :
      \E resp \in DetailResponses(entries, {"d1"}) :
        GetWithDetailsAction("input", entries, resp, FALSE)

GetLayersWithDetails ==
    /\ refresh_counter["layer"] < MaxCycles
    /\ \E entries \in LiveListResponses("layer") :
      \E resp \in DetailResponses(entries, {"d1"}) :
        GetWithDetailsAction("layer", entries, resp, FALSE)

\* the two flags a successful preset/play or layer/writeSource sets
ForceBoth_OnlyLayers(ok) ==
    [c \in Colls |-> IF ok /\ c = "layer" THEN TRUE ELSE force_refresh_details[c]]
ForceBoth(ok) ==
    [c \in Colls |-> IF ok THEN TRUE ELSE force_refresh_details[c]]

\* async_load_preset(preset_id): ok = the preset/play request returned non-None
LoadPreset ==
    \E p \in Ids, ok \in BOOLEAN :
      /\ force_refresh_details' = ForceBoth(ok)
      /\ ev' = [NoEvent EXCEPT !.op = "load_preset", !.writeOk = ok, !.ret = ok]
      /\ writePending' = [c \in Colls |-> ok \/ writePending[c]]
      /\ UNCHANGED <<detail_cache, signature_cache, refresh_counter, last_preset_id,
                     background_list_cache, background_refresh_counter,
                     force_refresh_backgrounds, coordVars, lastList, lastClean,
                     lastWritten, sinceFetch, live, taskVars, call>>

\* async_set_layer_source(layer_id, ...): ok = layer/writeSource returned non-None
SetLayerSource ==
    \E layer_id \in Ids, ok \in BOOLEAN :
      /\ force_refresh_details' = ForceBoth(ok)
      /\ ev' = [NoEvent EXCEPT !.op = "set_layer_source",
                               !.writeOk = ok, !.ret = ok]
      /\ writePending' = [c \in Colls |-> ok \/ writePending[c]]
      /\ UNCHANGED <<detail_cache, signature_cache, refresh_counter, last_preset_id,
                     background_list_cache, background_refresh_counter,
                     force_refresh_backgrounds, coordVars, lastList, lastClean,
                     lastWritten, sinceFetch, live, taskVars, call>>


\* async_set_background(background_id, enabled): ok = screen/writeBKG returned non-None
SetBackground ==
    \E background_id \in Ids, enabled \in BOOLEAN, ok \in BOOLEAN :
      /\ force_refresh_backgrounds' = (ok \/ force_refresh_backgrounds)
      /\ ev' = [NoEvent EXCEPT !.op = "set_background", !.arg = background_id,
                               !.req = enabled, !.writeOk = ok, !.ret = ok]
      /\ UNCHANGED <<detail_cache, signature_cache, refresh_counter,
                     force_refresh_details, last_preset_id, background_list_cache,
                     background_refresh_counter, coordVars, lastList, lastClean,
                     writePending, lastWritten, sinceFetch, live, taskVars, call>>

GetBackgroundList_NoForce(st, answer) ==
    LET counter == st.counter + 1
        request == st.cache = <<>> \/ IsPeriodic(counter)
    IN [counter |-> counter,
        force |-> IF request THEN FALSE ELSE st.force,
        cache |-> IF request /\ IsSome(answer) THEN SortSeq(answer[1], LAMBDA x, y : x < y) ELSE st.cache,
        requested |-> request]
\* async_get_background_list as a function of st = [cache, counter, force] and
\* of the answer of bkg/readAllList (<<>> = not a list, <<ids>> = the bkgIds)
GetBackgroundList(st, answer) ==
    LET counter == st.counter + 1
        periodic_refresh == IsPeriodic(counter)
        should_refresh == periodic_refresh \/ st.force
        request == st.cache = <<>> \/ should_refresh
    IN [counter |-> counter,
        force |-> IF request THEN FALSE ELSE st.force,
        cache |-> IF request /\ IsSome(answer) THEN SortSeq(answer[1], LAMBDA x, y : x < y) ELSE st.cache,
        requested |-> request]

\* "background_id: int = 0" of NovastarState; async_get_state assigns neither
\* background_id nor background_enabled
DefaultBackgroundId == 0

ForceOnPresetChange_LayersOnly(last, current, flags) ==
    IF IsSome(last) /\ last[1] # current
    THEN [c \in Colls |-> c = "layer" \/ flags[c]] ELSE flags
\* "If preset changed, force detail refresh for dependent structures"
ForceOnPresetChange(last, current, flags) ==
    IF IsSome(last) /\ last[1] # current
    THEN [c \in Colls |-> TRUE] ELSE flags

\* async_get_state as a function of the client state and the device's answers:
\* the preset id read, the two list reads with their detail reads, and the
\* background list read.
GetState(current_preset_id, lists, resps, bkg) ==
    LET flags == ForceOnPresetChange(last_preset_id, current_preset_id,
                                     force_refresh_details)
        ri == GetWithDetails("input", [CollState("input") EXCEPT !.force = flags["input"]],
                             lists["input"], resps["input"])
        rl == GetWithDetails("layer", [CollState("layer") EXCEPT !.force = flags["layer"]],
                             lists["layer"], resps["layer"])
        b == GetBackgroundList([cache |-> background_list_cache,
                                counter |-> background_refresh_counter,
                                force |-> force_refresh_backgrounds], bkg)
    IN [input |-> ri, layer |-> rl, b |-> b,
        state |-> [ftb_active |-> FALSE, freeze_active |-> FALSE,
                   current_preset_id |-> current_preset_id,
                   inputs |-> ri.merged, layers |-> rl.merged,
                   backgrounds |-> b.cache,
                   background_enabled |-> FALSE,
                   background_id |-> DefaultBackgroundId]]

\* self._ftb_active and self._freeze_active, read when get_state has returned
TrackedFlags_AtStart ==
    IF IsSome(flight["poll"].began) THEN flight["poll"].began[1]
    ELSE [ftb |-> ftb_active, freeze |-> freeze_active]
TrackedFlags == [ftb |-> ftb_active, freeze |-> freeze_active]

Overlay_None(state) == state
\* "Preserve locally tracked states"
Overlay(state) ==
    [state EXCEPT !.ftb_active = TrackedFlags.ftb, !.freeze_active = TrackedFlags.freeze]

\* One refresh of the coordinator: _async_update_data, whose result becomes
\* coordinator.data and is handed to the listeners.  The refresh history
\* (ev per collection, lastList, lastClean) is kept when track is set.
\* op names the caller of the refresh and written is the record of the
\* screen/ftb and screen/writeFreeze writes when the refresh ends.
PollEnds(current_preset_id, lists, resps, bkg, track, op, written) ==
    \E g \in {GetState(current_preset_id, lists, resps, bkg)} :
      \E state \in {Overlay(g.state)} :
       /\ detail_cache' = [c \in Colls |-> g[c].detail]
       /\ signature_cache' = [c \in Colls |-> g[c].sig]
       /\ refresh_counter' = [c \in Colls |-> g[c].counter]
       /\ force_refresh_details' = [c \in Colls |-> g[c].force]
       /\ last_preset_id' = Some(current_preset_id)
       /\ background_list_cache' = g.b.cache
       /\ background_refresh_counter' = g.b.counter
       /\ force_refresh_backgrounds' = g.b.force
       /\ data' = Some(state)
       /\ published' = Some(state)
       /\ refreshed' = TRUE
       /\ ev' = LET e == [NoEvent EXCEPT !.op = op, !.ret = TRUE,
                               !.presetChanged = (IsSome(last_preset_id)
                                   /\ last_preset_id # Some(current_preset_id))]
                IN IF track
                   THEN RefreshEvent(RefreshEvent(e, "input", lists["input"], g["input"]),
                                     "layer", lists["layer"], g["layer"])
                   ELSE e
       /\ lastList' = IF track THEN [c \in Colls |-> Some(lists[c])] ELSE lastList
       /\ lastClean' = IF track THEN [c \in Colls |-> g[c].failed = {}] ELSE lastClean
       /\ writePending' = [c \in Colls |-> FALSE]
       /\ lastWritten' = written
       /\ UNCHANGED <<ftb_active, freeze_active, sinceFetch, live, call>>

PollAfter(current_preset_id, lists, resps, bkg, track, op, written) ==
    /\ PollEnds(current_preset_id, lists, resps, bkg, track, op, written)
    /\ UNCHANGED taskVars

PollWith(current_preset_id, lists, resps, bkg, track) ==
    PollAfter(current_preset_id, lists, resps, bkg, track, "poll", lastWritten)

\* device answers of the coordinator specification
Poll ==
    /\ background_refresh_counter < MaxPolls
    /\ \E current_preset_id \in {NoPreset, 1} :
      \E ll \in {<<>>, <<Entry(1, "a", ClosedAudio)>>} :
        \E ri \in DetailResponses(<<Entry(1, "a", NoAudio)>>, {"d1"}),
           rl \in DetailResponses(ll, {"d1"}) :
          \E bkg \in {<<>>, <<(<<2, 1>>)>>} :
            PollWith(current_preset_id,
                     [input |-> <<Entry(1, "a", NoAudio)>>, layer |-> ll],
                     [input |-> ri, layer |-> rl], bkg, FALSE)

\* device answers of the aggregation specification: the preset id changes,
\* the lists hold entries with and without an integer id
StateLists(c) ==
    LET a == AudioOf(c) IN
    { <<>>, <<Entry(NoId, "a", a), Entry(2, "b", a), Entry(1, "a", a)>> }

PollState ==
    /\ background_refresh_counter < MaxPolls
    /\ \E current_preset_id \in {NoPreset, 1, 2} :
      \E li \in StateLists("input"), ll \in StateLists("layer") :
        \E ri \in DetailResponses(li, {"d1"}), rl \in DetailResponses(ll, {"d1"}) :
          PollWith(current_preset_id, [input |-> li, layer |-> ll],
                   [input |-> ri, layer |-> rl], <<>>, TRUE)

TrackWrite_Always(result, requested, current) == requested
TrackWrite_Never(result, requested, current) == current
\* "if result: self._ftb_active = blackout"
TrackWrite(result, requested, current) == IF result THEN requested ELSE current

\* coordinator.async_set_ftb(blackout): result = client.async_set_ftb returned
\* True, i.e. the screen/ftb request returned non-None
SetFtb ==
    \E blackout \in BOOLEAN, result \in BOOLEAN :
      LET newData == IF result /\ IsSome(data)
                     THEN Some([data[1] EXCEPT !.ftb_active = blackout]) ELSE data
      IN /\ refreshed
         /\ ftb_active' = TrackWrite(result, blackout, ftb_active)
         /\ data' = newData
         /\ published' = IF result THEN newData ELSE published
         /\ lastWritten' = IF result THEN [lastWritten EXCEPT !.ftb = blackout]
                           ELSE lastWritten
         /\ ev' = [NoEvent EXCEPT !.op = "set_ftb", !.req = blackout,
                                  !.writeOk = result, !.ret = result]
         /\ UNCHANGED <<clientVars, freeze_active, refreshed, lastList, lastClean,
                        writePending, sinceFetch, live, taskVars, call>>

\* coordinator.async_set_freeze(freeze)
SetFreeze ==
    \E freeze \in BOOLEAN, result \in BOOLEAN :
      LET newData == IF result /\ IsSome(data)
                     THEN Some([data[1] EXCEPT !.freeze_active = freeze]) ELSE data
      IN /\ refreshed
         /\ freeze_active' = TrackWrite(result, freeze, freeze_active)
         /\ data' = newData
         /\ published' = IF result THEN newData ELSE published
         /\ lastWritten' = IF result THEN [lastWritten EXCEPT !.freeze = freeze]
                           ELSE lastWritten
         /\ ev' = [NoEvent EXCEPT !.op = "set_freeze", !.req = freeze,
                                  !.writeOk = result, !.ret = result]
         /\ UNCHANGED <<clientVars, ftb_active, refreshed, lastList, lastClean,
                        writePending, sinceFetch, live, taskVars, call>>

\* The attributes of a NovastarCoordinator object that are coroutines.
CoordinatorMethods == {"async_set_ftb", "async_set_freeze", "_async_update_data"}
\* The coordinator coroutines that the services and the select/number entities await.
CoordinatorWriteCalls ==
    {"async_set_layer_source", "async_set_active_preset", "async_set_audio_input",
     "async_set_audio_output", "async_set_audio_volume", "async_set_background"}

\* "await coordinator.<method>(...)" in a service handler or entity: looking
\* up a name the class does not define raises AttributeError in the caller.
CallCoordinatorWrite ==
    \E method \in CoordinatorWriteCalls :
      /\ refreshed
      /\ ev' = [NoEvent EXCEPT !.op = method,
                               !.raised = (method \notin CoordinatorMethods)]
      /\ UNCHANGED <<clientVars, coordVars, lastList, lastClean, writePending,
                     lastWritten, sinceFetch, live, taskVars, call>>

Next ==
    \/ Poll
    \/ SetFtb
    \/ SetFreeze
    \/ LoadPreset
    \/ SetLayerSource
    \/ SetBackground
    \/ CallCoordinatorWrite
Spec == Init /\ [][Next]_vars

\* The aggregation: poll cycles while presets are loaded.
NextState == PollState \/ LoadPreset
SpecState == Init /\ [][NextState]_vars

\* The detail caches driven through the client's own operations.
NextCache == GetInputsWithDetails \/ GetLayersWithDetails \/ LoadPreset \/ SetLayerSource
SpecCache == InitLive /\ [][NextCache]_vars

\* The periodic refresh alone: the same refresh routines on fewer lists, with
\* the count of cycles since each id's last detail request.
PeriodicLists(c) ==
    IF c # live THEN {<<>>}
    ELSE LET a == AudioOf(c) IN
         { <<>>, <<Entry(1, "a", a)>>, <<Entry(1, "a", a), Entry(2, "a", a)>>,
           <<Entry(1, "a", a), Entry(2, "b", a)>> }

PeriodicInputs ==
    /\ refresh_counter["input"] < MaxCycles
    /\ \E entries \in PeriodicLists("input") :
      \E resp \in DetailResponses(entries, {"d1"}) :
        GetWithDetailsAction("input", entries, resp, TRUE)

PeriodicLayers ==
    /\ refresh_counter["layer"] < MaxCycles
    /\ \E entries \in PeriodicLists("layer") :
      \E resp \in DetailResponses(entries, {"d1"}) :
        GetWithDetailsAction("layer", entries, resp, TRUE)

NextPeriodic == PeriodicInputs \/ PeriodicLayers
SpecPeriodic == InitLive /\ [][NextPeriodic]_vars

\* ------------------------------------------------------ audio input selection
\* The device side: audioStatus <<isAvailable, isOpen>> of each layer, listed
\* by layer/detailList in id order.
AudioStates == {<<0, 0>>, <<0, 1>>, <<1, 0>>, <<1, 1>>}
Devices == [Ids -> AudioStates]
LayerList(dev) == <<Entry(1, "a", dev[1]), Entry(2, "a", dev[2])>>

IsAvailable(a) == a # NoAudio /\ a[1] = 1
IsOpen(a) == a # NoAudio /\ a[2] = 1

\* answers of the device to layer/detailList, to the writes of one layer
\* (in "no_general" neither layer/readDetail nor the list entry carries the
\* general mapping, "null" is None for every candidate payload, "ignored" is
\* an answer that leaves the layer as it was) and to the screen-level writes
ReadAnswers == {"null", "ok"}
WriteAnswers == {"no_general", "null", "ok", "ignored"}
ScreenAnswers == {"null", "ok", "routed"}

MinOf(S) == CHOOSE x \in S : \A y \in S : x <= y

\* sorted(selected_ids)[0] over the layers whose audioStatus.isOpen is 1
_selected_audio_input_from_layers(layers) ==
    LET selected_ids == {layers[k].id : k \in {j \in DOMAIN layers :
                            IsValidId(layers[j]) /\ IsOpen(layers[j].audio)}}
    IN IF selected_ids = {} THEN <<>> ELSE Some(MinOf(selected_ids))

\* the layers with an id and audioStatus.isAvailable == 1
AudioLayers(layers) ==
    SelectSeq(layers, LAMBDA l : IsValidId(l) /\ IsAvailable(l.audio))
\* the eligible layers other than the selected one that are open
CloseLayers(layers, selected_layer_id) ==
    SelectSeq(AudioLayers(layers),
              LAMBDA l : l.id # selected_layer_id /\ IsOpen(l.audio))
SelectedLayers_Any(layers, selected_layer_id) ==
    SelectSeq(layers, LAMBDA l : l.id = selected_layer_id)
\* the eligible layer that is the selected one
SelectedLayers(layers, selected_layer_id) ==
    SelectSeq(AudioLayers(layers), LAMBDA l : l.id = selected_layer_id)

StateOf(g) == [detail |-> g.detail, sig |-> g.sig, counter |-> g.counter,
               force |-> g.force]

\* async_get_layers_with_details inside the handler; force = the handler has
\* set _force_refresh_layer_details just before the call
ReadLayers(st, dev, answer, force) ==
    LET entries == IF answer = "null" THEN <<>> ELSE LayerList(dev)
        g == GetWithDetails("layer", [st EXCEPT !.force = force \/ @], entries,
                            [k \in 1..Len(entries) |-> "d1"])
    IN [st |-> StateOf(g), merged |-> g.merged, list |-> entries,
        clean |-> g.failed = {}]

\* _write_layer_open_state(layer, should_open): the payload carries the
\* audioStatus of the list entry with isOpen replaced; no write request is
\* sent when the general mapping is missing
_write_layer_open_state(dev, layer, should_open, answer) ==
    [dev |-> IF answer = "ok"
             THEN [dev EXCEPT ![layer.id] = <<layer.audio[1], should_open>>]
             ELSE dev,
     ok |-> answer \in {"ok", "ignored"},
     sent |-> answer # "no_general"]

\* the requests of the handler in the order they are sent: the first layer
\* refresh ("read"), the layer writes ("close", "open"), the verification
\* refreshes ("verify", ok = the selected layer was found open), the refresh
\* before the reversed attempt ("retry_read") and the screen-level writes
Sent(kind, id, ok) == [kind |-> kind, id |-> id, ok |-> ok]
\* the requests are recorded only for a handler state h that keeps a trace
Record(h, entry) == IF h.trace THEN Append(h.log, entry) ELSE h.log

\* "for layer in layers: if await _write_layer_open_state(layer, s): ..."
\* h = [dev, any_layer_updated, selected_layer_updated, log, first, trace]; the
\* result is the set of the states the device's answers can lead to
RECURSIVE WriteLayers(_, _, _, _, _)
WriteLayers(h, layers, k, should_open, selected) ==
    IF k > Len(layers) THEN {h}
    ELSE UNION { WriteLayers([h EXCEPT !.dev = w.dev, !.any = @ \/ w.ok,
                                       !.sel = @ \/ (selected /\ w.ok),
                                       !.log = IF w.sent
                                               THEN Record(h, Sent(
                                                        IF should_open = 1 THEN "open"
                                                        ELSE "close", layers[k].id, w.ok))
                                               ELSE @],
                             layers, k + 1, should_open, selected) :
                 w \in {_write_layer_open_state(h.dev, layers[k], should_open, a) :
                            a \in WriteAnswers} }

ReturnValue_Unverified(any_layer_updated, selected_layer_updated, is_selected_applied) ==
    any_layer_updated /\ selected_layer_updated
\* "return any_layer_updated and selected_layer_updated and is_selected_applied"
ReturnValue(any_layer_updated, selected_layer_updated, is_selected_applied) ==
    any_layer_updated /\ selected_layer_updated /\ is_selected_applied

\* what the handler leaves: the client's layer state, the return value, the
\* merged list of the last verification (<<>> if none was made), the requests
\* sent and the merged list of the first refresh
AudioOutcome(r, ret, verified, log, first) ==
    [st |-> r.st, ret |-> ret, verified |-> verified, list |-> r.list,
     clean |-> r.clean, log |-> log, first |-> first]

\* _verify_selected_open(): (selected_after == selected_layer_id, refreshed list)
VerifySelectedOpen(st, dev, selected_layer_id) ==
    { [r |-> r,
       applied |-> _selected_audio_input_from_layers(r.merged)
                       = Some(selected_layer_id)] :
      r \in {ReadLayers(st, dev, a, TRUE) : a \in ReadAnswers} }

\* the screen-level fallback and the last verification: at least one of the
\* candidates is sent, "routed" is an answer after which the device has the
\* selected layer open
ScreenFallback(st, h, selected_layer_id) ==
    UNION { { AudioOutcome(v.r,
                           ReturnValue(h.any \/ v.applied, h.sel \/ v.applied, v.applied),
                           Some(v.r.merged),
                           Record([h EXCEPT !.log = Record(h, Sent("screen_write",
                                                  selected_layer_id, s # "null"))],
                                  Sent("verify", selected_layer_id, v.applied)),
                           h.first) :
              v \in VerifySelectedOpen(st,
                       IF s = "routed"
                       THEN [h.dev EXCEPT ![selected_layer_id] = <<@[1], 1>>]
                       ELSE h.dev, selected_layer_id) } :
            s \in ScreenAnswers }

\* the fallback order: open the selected layer first, then close the others
OpenThenClose(st, h, selected_layer_id) ==
    UNION { UNION { UNION { UNION {
        LET log == Record(h2, Sent("verify", selected_layer_id, v.applied))
        IN IF v.applied
           THEN {AudioOutcome(v.r, ReturnValue(h2.any, h2.sel, v.applied),
                              Some(v.r.merged), log, h.first)}
           ELSE ScreenFallback(v.r.st, [h2 EXCEPT !.log = log], selected_layer_id) :
          v \in VerifySelectedOpen(retry.st, h2.dev, selected_layer_id) } :
          h2 \in WriteLayers(h1, CloseLayers(retry.merged, selected_layer_id),
                             1, 0, FALSE) } :
          h1 \in WriteLayers([h EXCEPT !.log = Record(h, Sent("retry_read", 0,
                                                              retry.list # <<>>))],
                             SelectedLayers(retry.merged, selected_layer_id),
                             1, 1, TRUE) } :
          retry \in {ReadLayers(st, h.dev, a, TRUE) : a \in ReadAnswers} }

CloseThenOpen_Reversed(first, dev, selected_layer_id, trace) ==
    UNION { UNION { UNION {
        LET log == Record(h2, Sent("verify", selected_layer_id, v.applied))
        IN IF v.applied
           THEN {AudioOutcome(v.r, ReturnValue(h2.any, h2.sel, v.applied),
                              Some(v.r.merged), log, first.merged)}
           ELSE OpenThenClose(v.r.st, [h2 EXCEPT !.log = log], selected_layer_id) :
          v \in VerifySelectedOpen([first.st EXCEPT !.force = h2.any \/ @],
                                   h2.dev, selected_layer_id) } :
          h2 \in WriteLayers(h1, CloseLayers(first.merged, selected_layer_id),
                             1, 0, FALSE) } :
          h1 \in WriteLayers([dev |-> dev, any |-> FALSE, sel |-> FALSE,
                              log |-> IF trace THEN <<Sent("read", 0, TRUE)>> ELSE <<>>,
                              first |-> first.merged, trace |-> trace],
                             SelectedLayers(first.merged, selected_layer_id),
                             1, 1, TRUE) }
\* the first order: close the open eligible layers, then open the selected one
CloseThenOpen(first, dev, selected_layer_id, trace) ==
    UNION { UNION { UNION {
        LET log == Record(h2, Sent("verify", selected_layer_id, v.applied))
        IN IF v.applied
           THEN {AudioOutcome(v.r, ReturnValue(h2.any, h2.sel, v.applied),
                              Some(v.r.merged), log, first.merged)}
           ELSE OpenThenClose(v.r.st, [h2 EXCEPT !.log = log], selected_layer_id) :
          v \in VerifySelectedOpen([first.st EXCEPT !.force = h2.any \/ @],
                                   h2.dev, selected_layer_id) } :
          h2 \in WriteLayers(h1, SelectedLayers(first.merged, selected_layer_id),
                             1, 1, TRUE) } :
          h1 \in WriteLayers([dev |-> dev, any |-> FALSE, sel |-> FALSE,
                              log |-> IF trace THEN <<Sent("read", 0, TRUE)>> ELSE <<>>,
                              first |-> first.merged, trace |-> trace],
                             CloseLayers(first.merged, selected_layer_id),
                             1, 0, FALSE) }

\* async_set_audio_input(input_id) on a device in state dev: every outcome
\* the device's answers allow, with the requests sent if trace is set
SetAudioInputOutcomes(st, dev, selected_layer_id, trace) ==
    UNION { IF SelectedLayers(first.merged, selected_layer_id) = <<>>
            THEN {AudioOutcome(first, FALSE, <<>>,
                               IF trace THEN <<Sent("read", 0, first.list # <<>>)>>
                               ELSE <<>>, first.merged)}
            ELSE CloseThenOpen(first, dev, selected_layer_id, trace) :
            first \in {ReadLayers(st, dev, a, FALSE) : a \in ReadAnswers} }

\* the ids a caller can pass: the two layers and an id of no layer
AudioInputIds == Ids \cup {3}

\* what async_set_audio_input(input_id) leaves in the client when the
\* device's answers lead to outcome o
StoreAudioOutcome(input_id, o) ==
    /\ detail_cache' = [detail_cache EXCEPT !["layer"] = o.st.detail]
    /\ signature_cache' = [signature_cache EXCEPT !["layer"] = o.st.sig]
    /\ refresh_counter' = [refresh_counter EXCEPT !["layer"] = o.st.counter]
    /\ force_refresh_details' =
           [force_refresh_details EXCEPT !["layer"] = o.st.force]
    /\ ev' = [NoEvent EXCEPT !.op = "set_audio_input", !.arg = input_id,
                             !.ret = o.ret, !.verified = o.verified]
    /\ lastList' = [lastList EXCEPT !["layer"] = Some(o.list)]
    /\ lastClean' = [lastClean EXCEPT !["layer"] = o.clean]
    /\ writePending' = [writePending EXCEPT !["layer"] = FALSE]
    /\ UNCHANGED <<last_preset_id, background_list_cache,
                   background_refresh_counter, force_refresh_backgrounds,
                   coordVars, lastWritten, sinceFetch, live, taskVars>>

\* async_set_audio_input(input_id, screen_id, device_id)
SetAudioInput ==
    /\ refresh_counter["layer"] < MaxAudioCycles
    /\ \E input_id \in AudioInputIds, dev \in Devices :
       \E o \in SetAudioInputOutcomes(CollState("layer"), dev, input_id, FALSE) :
          StoreAudioOutcome(input_id, o) /\ UNCHANGED call

\* The audio input selection alone.
NextAudio == SetAudioInput
SpecAudio == Init /\ [][NextAudio]_vars

\* ------------------------------------- the layer refresh, await by await
\* async_get_layers_with_details suspends at the list request and at every
\* detail request; between two awaits it runs without interruption.  Nothing
\* in the client keeps a second coroutine from entering it meanwhile.

\* From entry loc.k on, the loop up to its next detail request, or to the end
\* of the routine (pruning and sort).  st = [detail, sig] are the caches.
RECURSIVE RunToAwait(_, _)
RunToAwait(loc, st) ==
    IF loc.k > Len(loc.entries)
    THEN LET pruned == StalePrune(st.detail, st.sig, loc.seen)
         IN [detail |-> pruned.detail, sig |-> pruned.sig,
             loc |-> [loc EXCEPT !.pc = "done", !.merged = SortById(@)]]
    ELSE
      LET e == loc.entries[loc.k] IN
      IF ~IsValidId(e)
      THEN RunToAwait([loc EXCEPT !.k = @ + 1,
                                  !.merged = Append(@, Merge("layer", e, <<>>))], st)
      ELSE
        LET signature == _layer_signature(e)
            seen == loc.seen \cup {e.id}
        IN IF ShouldRefreshDetail(loc.force, loc.periodic, Get(st.sig, e.id), signature)
           THEN [detail |-> st.detail, sig |-> st.sig,
                 loc |-> [loc EXCEPT !.pc = "detail", !.seen = seen,
                                     !.signature = signature,
                                     !.fetched = @ \cup {e.id}]]
           ELSE RunToAwait([loc EXCEPT !.k = @ + 1, !.seen = seen,
                               !.merged = Append(@, Merge("layer", e,
                                                          Get(st.detail, e.id)))], st)

\* the caches and the task's locals after a step of task t that ended in r
TaskStep(t, r) ==
    /\ detail_cache' = [detail_cache EXCEPT !["layer"] = r.detail]
    /\ signature_cache' = [signature_cache EXCEPT !["layer"] = r.sig]
    /\ flight' = [flight EXCEPT ![t] = IF r.loc.pc = "done" THEN IdleTask ELSE r.loc]
    /\ ev' = [NoEvent EXCEPT !.op = "layers_with_details", !.ret = (r.loc.pc = "done"),
                             !.verified = IF r.loc.pc = "done" THEN Some(r.loc.merged)
                                          ELSE <<>>,
                             !.list["layer"] = r.loc.entries,
                             !.cycle["layer"] = (r.loc.pc = "done"),
                             !.fetched["layer"] = r.loc.fetched,
                             !.owed["layer"] = r.loc.owed]

\* a coroutine calls async_get_layers_with_details: layer/detailList is sent.
\* set_audio_input sets the force flag before its verification reads.
StartLayersRefresh ==
    \E t \in Tasks, force \in BOOLEAN :
      /\ reads.started < MaxReads
      /\ flight[t].pc = "idle"
      /\ force => t = "audio"
      /\ flight' = [flight EXCEPT ![t] = [IdleTask EXCEPT !.pc = "list"]]
      /\ force_refresh_details' =
             [force_refresh_details EXCEPT !["layer"] = force \/ @]
      /\ reads' = [reads EXCEPT !.started = @ + 1]
      /\ ev' = [NoEvent EXCEPT !.op = "layers_start"]
      /\ UNCHANGED <<detail_cache, signature_cache, refresh_counter, last_preset_id,
                     background_list_cache, background_refresh_counter,
                     force_refresh_backgrounds, coordVars, lastList, lastClean,
                     writePending, lastWritten, sinceFetch, live, call, scan>>

\* "force_refresh = self._force_refresh_layer_details" of a cycle
ForceOfCycle_Never(flag) == FALSE
ForceOfCycle(flag) == flag

\* layer/detailList answers task t: counter, flags, and the loop up to the
\* first detail request
LayerListResponse ==
    \E t \in Tasks :
      /\ flight[t].pc = "list"
      /\ \E entries \in {<<>>, <<Entry(1, "a", ClosedAudio)>>,
                         <<Entry(1, "b", ClosedAudio)>>,
                         <<Entry(1, "a", ClosedAudio), Entry(2, "a", ClosedAudio)>>} :
         LET counter == refresh_counter["layer"] + 1
             loc == [IdleTask EXCEPT !.entries = entries, !.k = 1,
                                     !.force = ForceOfCycle(force_refresh_details["layer"]),
                                     !.periodic = IsPeriodic(counter),
                                     !.readNo = reads.answered + 1,
                                     !.owed = writePending["layer"]]
         IN /\ reads' = [reads EXCEPT !.answered = @ + 1]
            /\ IF entries = <<>>
               THEN /\ flight' = [flight EXCEPT ![t] = IdleTask]
                    /\ ev' = [NoEvent EXCEPT !.op = "layers_with_details",
                                             !.ret = TRUE, !.verified = Some(<<>>)]
                    /\ UNCHANGED <<detail_cache, signature_cache, refresh_counter,
                                   force_refresh_details, writePending>>
               ELSE /\ refresh_counter' = [refresh_counter EXCEPT !["layer"] = counter]
                    /\ writePending' = [writePending EXCEPT !["layer"] = FALSE]
                    /\ force_refresh_details' =
                           [force_refresh_details EXCEPT !["layer"] = FALSE]
                    /\ \E r \in {RunToAwait(loc, [detail |-> detail_cache["layer"],
                                                  sig |-> signature_cache["layer"]])} :
                         TaskStep(t, r)
      /\ UNCHANGED <<last_preset_id, background_list_cache,
                     background_refresh_counter, force_refresh_backgrounds,
                     coordVars, lastList, lastClean, lastWritten,
                     sinceFetch, live, call, scan>>

\* layer/readDetail answers task t: the store, the merge of this entry, and
\* the loop up to the next detail request
LayerDetailResponse ==
    \E t \in Tasks, detail \in Details \cup {NoDetail} :
      LET loc == flight[t]
          e == loc.entries[loc.k]
          ok == detail # NoDetail
          det == IF ok THEN (e.id :> detail) @@ detail_cache["layer"]
                 ELSE detail_cache["layer"]
          sig == IF ok THEN (e.id :> loc.signature) @@ signature_cache["layer"]
                 ELSE signature_cache["layer"]
      IN /\ loc.pc = "detail"
         /\ reads' = IF ok
                     THEN [reads EXCEPT !.stored[e.id] = loc.readNo,
                                        !.stale = @ \/ loc.readNo < reads.stored[e.id]]
                     ELSE reads
         /\ \E r \in {RunToAwait([loc EXCEPT !.k = @ + 1,
                                    !.merged = Append(@, Merge("layer", e,
                                                               Get(det, e.id)))],
                                 [detail |-> det, sig |-> sig])} :
              TaskStep(t, r)
         /\ UNCHANGED <<refresh_counter, force_refresh_details, last_preset_id,
                        background_list_cache, background_refresh_counter,
                        force_refresh_backgrounds, coordVars, lastList, lastClean,
                        writePending, lastWritten, sinceFetch, live, call, scan>>

\* Two coroutines of one client in the layer refresh.
NextTasks == StartLayersRefresh \/ LayerListResponse \/ LayerDetailResponse
SpecTasks == Init /\ [][NextTasks]_vars

\* The layer refresh of the two coroutines while preset/play and
\* layer/writeSource requests of other callers complete.
RaceRefresh == reads.started < MaxRaceReads /\ StartLayersRefresh
NextRace ==
    \/ RaceRefresh \/ LayerListResponse \/ LayerDetailResponse
    \/ LoadPreset \/ SetLayerSource
SpecRace == Init /\ [][NextRace]_vars

\* ------------------------------------------------- the merge, key by key
\* A list entry and a detail body are mappings from keys to values.  The
\* values of audioStatus are two mappings and the JSON null.
MergeKeys == {"name", "audioStatus"}
NameVals == {"x", "y"}
AudioDicts == {"{isOpen:0}", "{isOpen:1}"}
AudioVals == AudioDicts \cup {"null"}
Dicts ==
    UNION { {d \in [K -> NameVals \cup AudioVals] :
                /\ "name" \in K => d["name"] \in NameVals
                /\ "audioStatus" \in K => d["audioStatus"] \in AudioVals} :
            K \in SUBSET MergeKeys }
EmptyDict == <<>>
\* self._input_detail_cache.get(id): None, or a cached body
CachedDetails == {<<>>} \cup {Some(d) : d \in Dicts \ {EmptyDict}}

\* "if cached_detail and isinstance(cached_detail, dict):
\*      merged = {**input_data, **cached_detail}"
MergeInput(input_data, cached_detail) ==
    IF IsSome(cached_detail) /\ cached_detail[1] # EmptyDict
    THEN cached_detail[1] @@ input_data
    ELSE input_data

MergeLayer_DetailWins(layer_data, cached_detail) ==
    MergeInput(layer_data, cached_detail)
\* the same with "merged['audioStatus'] = layer_data['audioStatus']" when the
\* list entry's audioStatus is a mapping
MergeLayer(layer_data, cached_detail) ==
    IF IsSome(cached_detail) /\ cached_detail[1] # EmptyDict
    THEN LET merged == cached_detail[1] @@ layer_data
         IN IF "audioStatus" \in DOMAIN layer_data
               /\ layer_data["audioStatus"] \in AudioDicts
            THEN [merged EXCEPT !["audioStatus"] = layer_data["audioStatus"]]
            ELSE merged
    ELSE layer_data

\* the frame of a step that only applies a function
PureFrame == UNCHANGED <<clientVars, coordVars, histVars, taskVars>>
Pending(fn) == call.fn = fn /\ call.out = <<>>
Done(fn) == call.fn = fn /\ IsSome(call.out)

MergeCalls ==
    {[fn |-> f, args |-> [list |-> l, detail |-> d], out |-> <<>>] :
        f \in {"merge_input", "merge_layer"}, l \in Dicts, d \in CachedDetails}

MergeInputRecord ==
    /\ Pending("merge_input")
    /\ call' = [call EXCEPT !.out = Some(MergeInput(call.args.list, call.args.detail))]
    /\ PureFrame
MergeLayerRecord ==
    /\ Pending("merge_layer")
    /\ call' = [call EXCEPT !.out = Some(MergeLayer(call.args.list, call.args.detail))]
    /\ PureFrame

InitMerge == Constructed /\ live = "input" /\ call \in MergeCalls
NextMerge == MergeInputRecord \/ MergeLayerRecord
SpecMerge == InitMerge /\ [][NextMerge]_vars

\* ------------------------------------------------------------ audio state
\* async_get_audio_state as a function of the layers handed in and of the
\* three reads: screen/readDetail, the audio detail candidates and the audio
\* list candidates.  A read is <<>> (None or not a mapping) or <<mapping>>;
\* an option list stands for its normalized form.
Clamp_Upper(v) == IF v > 100 THEN 100 ELSE v
\* max(0, min(100, v))
Clamp(v) == IF v < 0 THEN 0 ELSE IF v > 100 THEN 100 ELSE v

\* the keys of an audio mapping that the routine looks at
AudioBlocks(ids_in, ids_out, volumes, options) ==
    [input_id : {<<>>} \cup {Some(i) : i \in ids_in},
     output_id : {<<>>} \cup {Some(i) : i \in ids_out},
     volume : {<<>>} \cup {Some(v) : v \in volumes},
     muted : {<<>>, Some(TRUE)},
     outputs : {<<>>} \cup options]

\* the last block of the routine: the layers alone decide input_id
InputIdFromLayers_KeepCurrent(layers, current) ==
    IF IsSome(_selected_audio_input_from_layers(layers))
    THEN _selected_audio_input_from_layers(layers) ELSE current
InputIdFromLayers(layers, current) == _selected_audio_input_from_layers(layers)

Prefer(new, old) == IF IsSome(new) THEN new ELSE old

\* screen = <<>> or <<[audio |-> <<>> or <<block>>]>>
AudioState(layers, screen, detail, list) ==
    LET r0 == [inputs |-> [k \in DOMAIN AudioLayers(layers) |-> AudioLayers(layers)[k].id],
               outputs |-> <<>>,
               input_id |-> _selected_audio_input_from_layers(layers),
               output_id |-> <<>>, volume |-> <<>>, muted |-> <<>>]
        r1 == IF IsSome(list) /\ list[1].outputs # <<>>
              THEN [r0 EXCEPT !.outputs = list[1].outputs] ELSE r0
        r2 == IF IsSome(detail)
              THEN [r1 EXCEPT !.input_id = detail[1].input_id,
                              !.output_id = detail[1].output_id,
                              !.volume = IF IsSome(detail[1].volume)
                                         THEN Some(Clamp(detail[1].volume[1])) ELSE @,
                              !.muted = Prefer(detail[1].muted, @),
                              !.outputs = IF @ = <<>> THEN detail[1].outputs ELSE @]
              ELSE r1
        r3 == IF IsSome(screen) /\ IsSome(screen[1].audio)
              THEN LET audio_data == screen[1].audio[1]
                   IN [r2 EXCEPT !.input_id = Prefer(audio_data.input_id, @),
                                 !.output_id = Prefer(audio_data.output_id, @),
                                 !.volume = IF IsSome(audio_data.volume)
                                            THEN Some(Clamp(audio_data.volume[1])) ELSE @,
                                 !.muted = Prefer(audio_data.muted, @),
                                 !.outputs = IF audio_data.outputs # <<>>
                                             THEN audio_data.outputs ELSE @]
              ELSE r2
    IN [r3 EXCEPT !.input_id = InputIdFromLayers(layers, @)]

\* the layers of the snapshot: always a list, entries as the refresh merges them
StateLayers ==
    { <<>>,
      <<Entry(1, "a", <<1, 0>>)>>,
      <<Entry(1, "a", <<1, 0>>), Entry(2, "a", <<1, 1>>)>>,
      <<Entry(1, "a", <<1, 1>>), Entry(2, "a", <<0, 1>>)>>,
      <<Entry(NoId, "a", <<1, 1>>), Entry(2, "a", <<1, 1>>)>>,
      <<Entry(1, "a", NoAudio), Entry(2, "a", <<1, 0>>)>> }

AudioStateCalls ==
    {[fn |-> "get_audio_state",
      args |-> [layers |-> l, screen |-> s, detail |-> d, list |-> a],
      out |-> <<>>] :
        l \in StateLayers,
        s \in {<<>>, Some([audio |-> <<>>])}
               \cup {Some([audio |-> Some(b)]) :
                        b \in AudioBlocks({7}, {8}, {150}, {<<"screen">>})},
        d \in {<<>>} \cup {Some(b) : b \in AudioBlocks({5}, {6}, {30}, {<<"detail">>})},
        a \in {<<>>, Some([outputs |-> <<>>]), Some([outputs |-> <<"list">>])}}

GetAudioState ==
    /\ Pending("get_audio_state")
    /\ call' = [call EXCEPT !.out = Some(AudioState(call.args.layers, call.args.screen,
                                                    call.args.detail, call.args.list))]
    /\ PureFrame

InitAudioState == Constructed /\ live = "input" /\ call \in AudioStateCalls
NextAudioState == GetAudioState
SpecAudioState == InitAudioState /\ [][NextAudioState]_vars

\* ------------------------------------------------------- endpoint fallback
\* _async_request_first_success(candidates): answer[c] is what _async_request
\* returns for candidate c, <<>> for None.  The result holds the value
\* returned and the candidates requested, in the order of the requests.
RECURSIVE FirstSuccess_All(_, _, _)
FirstSuccess_All(candidates, answer, sent) ==
    IF candidates = <<>> THEN [result |-> <<>>, sent |-> sent]
    ELSE LET rest == FirstSuccess_All(Tail(candidates), answer,
                                      Append(sent, Head(candidates)))
         IN IF IsSome(rest.result) \/ ~IsSome(answer[Head(candidates)])
            THEN rest
            ELSE [rest EXCEPT !.result = answer[Head(candidates)]]
RECURSIVE FirstSuccess(_, _, _)
FirstSuccess(candidates, answer, sent) ==
    IF candidates = <<>> THEN [result |-> <<>>, sent |-> sent]
    ELSE LET result == answer[Head(candidates)]
         IN IF IsSome(result)
            THEN [result |-> result, sent |-> Append(sent, Head(candidates))]
            ELSE FirstSuccess(Tail(candidates), answer, Append(sent, Head(candidates)))

\* the candidates of async_set_audio_output; the first one exists only when
\* screen/readDetail returned an audio mapping
AudioOutputCandidates(has_audio) ==
    (IF has_audio THEN <<"screen/writeDetail:merged">> ELSE <<>>) \o
    <<"audio/writeOutput:audioOutputId", "audio/writeOutput:outputId",
      "audio/writeOutput:outputChannelMode", "screen/writeAudioOutput:outputId",
      "screen/writeAudioOutput:outputChannelMode", "screen/writeDetail:audio",
      "audio/write:audioOutputId">>
Range(seq) == {seq[k] : k \in DOMAIN seq}

SetAudioOutputResult_All(has_audio, answer) ==
    LET r == FirstSuccess_All(AudioOutputCandidates(has_audio), answer, <<>>)
    IN [ret |-> IsSome(r.result), result |-> r.result, sent |-> r.sent]
\* async_set_audio_output(output_id) given the device's answers
SetAudioOutputResult(has_audio, answer) ==
    LET r == FirstSuccess(AudioOutputCandidates(has_audio), answer, <<>>)
    IN [ret |-> IsSome(r.result), result |-> r.result, sent |-> r.sent]

\* the device answers a candidate with None or with a response of its own
AudioOutputCalls ==
    {[fn |-> "set_audio_output",
      args |-> [has_audio |-> h,
                answer |-> [c \in Range(AudioOutputCandidates(h)) |->
                               IF c \in ok THEN Some(c) ELSE <<>>]],
      out |-> <<>>] :
        h \in BOOLEAN, ok \in SUBSET Range(AudioOutputCandidates(TRUE))}

SetAudioOutput ==
    /\ Pending("set_audio_output")
    /\ call' = [call EXCEPT !.out = Some(SetAudioOutputResult(call.args.has_audio,
                                                              call.args.answer))]
    /\ PureFrame

InitFallback == Constructed /\ live = "input" /\ call \in AudioOutputCalls
NextFallback == SetAudioOutput
SpecFallback == InitFallback /\ [][NextFallback]_vars

\* ---------------------------------------------------------------- transport
\* _async_request as a function of what the POST meets.  A JSON value is
\* known by its kind; "none" is a key that is missing or falsy.
HttpOk == 200
ApiOk == 0
JsonKinds == {"dict", "list", "string", "number", "null"}

\* _decrypt_body(str) with encryption on: {} when pyDes is missing or the
\* decoding fails, else whatever json.loads gives
DecryptBody(decrypt) ==
    IF decrypt \in {"import_error", "error"} THEN "empty_dict" ELSE decrypt

\* r = [failure, http_status, json, api_status, body, data, decrypt]:
\* failure is an exception of the session, of the POST or of response.json()
AsyncRequest(encryption, r) ==
    LET body_data == IF r.body # "none" THEN r.body
                     ELSE IF r.data # "none" THEN r.data ELSE "empty_dict"
        value == IF r.failure THEN <<>>
                 ELSE IF r.http_status # HttpOk THEN <<>>
                 ELSE IF r.json # "dict" THEN <<>>
                 ELSE IF r.api_status # Some(ApiOk) THEN <<>>
                 ELSE IF encryption /\ body_data = "string"
                      THEN (IF DecryptBody(r.decrypt) = "null" THEN <<>>
                            ELSE Some(DecryptBody(r.decrypt)))
                 ELSE IF body_data \in {"dict", "list", "empty_dict"} THEN Some(body_data)
                 ELSE Some("empty_dict")
    IN [value |-> value, posts |-> 1, raised |-> FALSE]

Responses ==
    [failure : BOOLEAN, http_status : {HttpOk, 500}, json : {"dict", "list"},
     api_status : {<<>>, Some(ApiOk), Some(1)},
     body : {"none", "dict", "list", "string", "number"},
     data : {"none", "dict"},
     decrypt : {"import_error", "error", "dict", "list", "null", "number"}]

RequestCalls ==
    {[fn |-> "request", args |-> [encryption |-> e, response |-> r], out |-> <<>>] :
        e \in BOOLEAN, r \in Responses}

Request ==
    /\ Pending("request")
    /\ call' = [call EXCEPT !.out = Some(AsyncRequest(call.args.encryption,
                                                      call.args.response))]
    /\ PureFrame

InitTransport == Constructed /\ live = "input" /\ call \in RequestCalls
NextTransport == Request
SpecTransport == InitTransport /\ [][NextTransport]_vars

\* ------------------------------------------------- brightness and volume
\* integer arguments around the range 0..100, and 150
Levels == (-5..105) \cup {150}

\* async_set_brightness(brightness): the payload of screen/writeBrightness
\* and the return value, ok = the request returned non-None
SetBrightnessResult(brightness, ok) ==
    [payload |-> [endpoint |-> "screen/writeBrightness", brightness |-> Clamp(brightness)],
     ret |-> ok]

\* the audio mappings screen/readDetail can return to async_set_audio_volume:
\* <<>> is no mapping; a mapping may hold volume values of its own
ScreenAudioBlocks ==
    {<<>>, Some([mode |-> 1]), Some([mode |-> 1, volume |-> 150, outputVolume |-> 150])}

\* the candidates of async_set_audio_volume, each with its volume fields
AudioVolumeCandidates(volume, audio_data) ==
    LET clamped_volume == Clamp(volume)
        both == [volume |-> clamped_volume, outputVolume |-> clamped_volume]
        one == [volume |-> clamped_volume]
    IN (IF IsSome(audio_data)
        THEN <<[endpoint |-> "screen/writeDetail:merged",
                volumes |-> both @@ audio_data[1]]>>
        ELSE <<>>) \o
       <<[endpoint |-> "audio/writeVolume", volumes |-> one],
         [endpoint |-> "screen/writeVolume", volumes |-> one],
         [endpoint |-> "screen/writeDetail:audio", volumes |-> both],
         [endpoint |-> "audio/write", volumes |-> one]>>

VolumeEndpoints ==
    {"screen/writeDetail:merged", "audio/writeVolume", "screen/writeVolume",
     "screen/writeDetail:audio", "audio/write"}

\* async_set_audio_volume(volume) given the device's answers
SetAudioVolumeResult(volume, audio_data, answer) ==
    LET candidates == AudioVolumeCandidates(volume, audio_data)
        r == FirstSuccess([k \in DOMAIN candidates |-> candidates[k].endpoint],
                          answer, <<>>)
    IN [candidates |-> candidates, ret |-> IsSome(r.result), sent |-> r.sent]

LevelCalls ==
    {[fn |-> "set_brightness", args |-> [brightness |-> b, ok |-> ok], out |-> <<>>] :
        b \in Levels, ok \in BOOLEAN}
    \cup
    {[fn |-> "set_audio_volume",
      args |-> [volume |-> v, audio_data |-> a,
                answer |-> [e \in VolumeEndpoints |-> IF e = good THEN Some(e) ELSE <<>>]],
      out |-> <<>>] :
        v \in Levels, a \in ScreenAudioBlocks, good \in VolumeEndpoints \cup {"none"}}

SetBrightness ==
    /\ Pending("set_brightness")
    /\ call' = [call EXCEPT !.out = Some(SetBrightnessResult(call.args.brightness,
                                                             call.args.ok))]
    /\ PureFrame
SetAudioVolume ==
    /\ Pending("set_audio_volume")
    /\ call' = [call EXCEPT !.out = Some(SetAudioVolumeResult(call.args.volume,
                                       call.args.audio_data, call.args.answer))]
    /\ PureFrame

InitLevels == Constructed /\ live = "input" /\ call \in LevelCalls
NextLevels == SetBrightness \/ SetAudioVolume
SpecLevels == InitLevels /\ [][NextLevels]_vars

\* ----------------------------------------------------------- request signing
\* Strings are sequences of tokens.  MD5, Base64, JSON and DES are kept as
\* constructors: equal outputs come from equal inputs only.
HexMd5(message) == <<[md5 |-> message]>>
Base64(text) == <<[b64 |-> text]>>
JsonDumps(body) == <<[json |-> body]>>
DesEcb(key, text) == <<[des |-> text, key |-> key]>>

GenerateSignature_WithBody(encryption, body_str, timestamp, project_id, secret_key) ==
    Base64(HexMd5(body_str \o timestamp \o project_id \o secret_key))
\* _generate_signature(body_str, timestamp)
GenerateSignature(encryption, body_str, timestamp, project_id, secret_key) ==
    LET message == IF encryption
                   THEN body_str \o timestamp \o project_id \o secret_key
                   ELSE timestamp \o project_id
    IN Base64(HexMd5(message))

\* _encrypt_body(body) returns a str: encryption is on and pyDes did its work
Encrypts(encryption, des) == encryption /\ des = "ok"
\* _encrypt_body(body): the Base64 ciphertext, or the body unchanged when
\* encryption is off, pyDes is missing or the encryption fails
EncryptBody(encryption, body, secret_key, des) ==
    IF Encrypts(encryption, des)
    THEN Base64(DesEcb(SubSeq(secret_key, 1, IF Len(secret_key) < 8
                                             THEN Len(secret_key) ELSE 8),
                       JsonDumps(body)))
    ELSE body

\* _build_request(body) at timestamp T
BuildRequest(c, body, timestamp) ==
    LET body_payload == EncryptBody(c.encryption, body, c.secret_key, c.des)
        body_str == IF Encrypts(c.encryption, c.des) THEN body_payload
                    ELSE JsonDumps(body)
    IN [body |-> body_payload,
        sign |-> GenerateSignature(c.encryption, body_str, timestamp,
                                   c.project_id, c.secret_key),
        pId |-> c.project_id,
        timeStamp |-> timestamp]

Payloads == {[deviceId |-> 0], [deviceId |-> 1],
             [deviceId |-> 0, screenId |-> 0, brightness |-> 100]}
Timestamps == {<<"1">>, <<"1", "7">>, <<"1", "7", "0">>}
ProjectIds == {<<>>, <<"7">>, <<"p">>}

\* two requests of one client built at the same timestamp
SignCalls ==
    {[fn |-> "build_request",
      args |-> [client |-> [encryption |-> e, project_id |-> p,
                            secret_key |-> <<"k">>, des |-> x],
                timestamp |-> t, body1 |-> b1, body2 |-> b2],
      out |-> <<>>] :
        e \in BOOLEAN, p \in ProjectIds, x \in {"ok", "import_error"},
        t \in Timestamps, b1 \in Payloads, b2 \in Payloads}

BuildRequests ==
    /\ Pending("build_request")
    /\ call' = [call EXCEPT !.out =
                   Some(<<BuildRequest(call.args.client, call.args.body1,
                                       call.args.timestamp),
                          BuildRequest(call.args.client, call.args.body2,
                                       call.args.timestamp)>>)]
    /\ PureFrame

InitSign == Constructed /\ live = "input" /\ call \in SignCalls
NextSign == BuildRequests
SpecSign == InitSign /\ [][NextSign]_vars

\* ---------------------------------------------------------------- body codec
\* _encrypt_body and _decrypt_body computed on characters and bytes.  A str
\* is a sequence of one-character strings, bytes are a sequence of 0..255.
\* A JSON value is [kind, int, str, sub]; a mapping is kind "dict" with its
\* members, in order, in sub, each member a value with a key.
AsciiChars ==
    <<" ", "!", "\"", "#", "$", "%", "&", "'", "(", ")", "*", "+",
      ",", "-", ".", "/", "0", "1", "2", "3", "4", "5", "6", "7",
      "8", "9", ":", ";", "<", "=", ">", "?", "@", "A", "B", "C",
      "D", "E", "F", "G", "H", "I", "J", "K", "L", "M", "N", "O",
      "P", "Q", "R", "S", "T", "U", "V", "W", "X", "Y", "Z", "[",
      "\\", "]", "^", "_", "U+0060", "a", "b", "c", "d", "e", "f", "g",
      "h", "i", "j", "k", "l", "m", "n", "o", "p", "q", "r", "s",
      "t", "u", "v", "w", "x", "y", "z", "{", "|", "}", "~">>
\* ("U+0060" stands for the grave accent)
\* a character outside ASCII (e with acute accent): two bytes in UTF-8
NonAscii == "U+00E9"
B64Alphabet ==
    <<"A", "B", "C", "D", "E", "F", "G", "H", "I", "J", "K", "L", "M",
      "N", "O", "P", "Q", "R", "S", "T", "U", "V", "W", "X", "Y", "Z",
      "a", "b", "c", "d", "e", "f", "g", "h", "i", "j", "k", "l", "m",
      "n", "o", "p", "q", "r", "s", "t", "u", "v", "w", "x", "y", "z",
      "0", "1", "2", "3", "4", "5", "6", "7", "8", "9", "+", "/">>
DigitChars == <<"0", "1", "2", "3", "4", "5", "6", "7", "8", "9">>
BlockSize == 8

IndexOf(seq, c) == CHOOSE i \in 1..Len(seq) : seq[i] = c
InSeq(seq, c) == \E i \in 1..Len(seq) : seq[i] = c

\* str.encode("utf-8")
RECURSIVE Utf8Encode(_)
Utf8Encode(s) ==
    IF s = <<>> THEN <<>>
    ELSE (IF Head(s) = NonAscii THEN <<195, 169>>
          ELSE <<31 + IndexOf(AsciiChars, Head(s))>>) \o Utf8Encode(Tail(s))
\* bytes.decode("utf-8") of bytes that are printable ASCII; any other byte
\* sequence is taken as undecodable
Utf8Decode(b) ==
    IF \A i \in 1..Len(b) : b[i] \in 32..126
    THEN [ok |-> TRUE, str |-> [i \in 1..Len(b) |-> AsciiChars[b[i] - 31]]]
    ELSE [ok |-> FALSE, str |-> <<>>]

\* base64.b64encode(bytes).decode("utf-8")
B64Encode(b) ==
    LET n == Len(b)
        at(i) == IF i <= n THEN b[i] ELSE 0
        char(k) ==
            LET g == (k - 1) \div 4
                p == (k - 1) % 4
                v == at(3 * g + 1) * 65536 + at(3 * g + 2) * 256 + at(3 * g + 3)
                sextet == CASE p = 0 -> (v \div 262144) % 64
                            [] p = 1 -> (v \div 4096) % 64
                            [] p = 2 -> (v \div 64) % 64
                            [] OTHER -> v % 64
            IN IF p = 2 /\ 3 * g + 2 > n THEN "="
               ELSE IF p = 3 /\ 3 * g + 3 > n THEN "="
               ELSE B64Alphabet[sextet + 1]
    IN [k \in 1..(4 * ((n + 2) \div 3)) |-> char(k)]
\* base64.b64decode(str): characters outside the alphabet are discarded,
\* a length that is no multiple of four is an error
B64Decode(s) ==
    LET t == SelectSeq(s, LAMBDA c : c = "=" \/ InSeq(B64Alphabet, c))
        n == Len(t)
        pad == IF n >= 2 /\ t[n] = "=" /\ t[n - 1] = "=" THEN 2
               ELSE IF n >= 1 /\ t[n] = "=" THEN 1 ELSE 0
        val(i) == IF t[i] = "=" THEN 0 ELSE IndexOf(B64Alphabet, t[i]) - 1
        byte(m) ==
            LET g == (m - 1) \div 3
                q == (m - 1) % 3
                v == val(4 * g + 1) * 262144 + val(4 * g + 2) * 4096
                     + val(4 * g + 3) * 64 + val(4 * g + 4)
            IN CASE q = 0 -> (v \div 65536) % 256
                 [] q = 1 -> (v \div 256) % 256
                 [] OTHER -> v % 256
    IN IF n % 4 # 0 THEN [ok |-> FALSE, bytes |-> <<>>]
       ELSE [ok |-> TRUE, bytes |-> [m \in 1..(3 * (n \div 4) - pad) |-> byte(m)]]

\* PAD_PKCS5: pad with k bytes of value k up to the next multiple of 8
Pkcs5Pad(buf) ==
    LET k == BlockSize - (Len(buf) % BlockSize)
    IN buf \o [i \in 1..k |-> k]
Pkcs5Unpad_Keep(buf) == buf
\* and strip as many bytes as the last byte says
Pkcs5Unpad(buf) ==
    IF buf = <<>> THEN buf
    ELSE SubSeq(buf, 1, IF buf[Len(buf)] >= Len(buf) THEN 0
                         ELSE Len(buf) - buf[Len(buf)])

\* self._secret_key[:8].encode("utf-8").ljust(8, b"\0")
DesKey(secret_key) ==
    LET raw == Utf8Encode(SubSeq(secret_key, 1,
                   IF Len(secret_key) < BlockSize THEN Len(secret_key) ELSE BlockSize))
    IN raw \o [i \in 1..(BlockSize - Len(raw)) |-> 0]
\* des(key, ECB, padmode=PAD_PKCS5) raises ValueError unless the key has 8 bytes
ValidKey(key) == Len(key) = BlockSize

\* cipher.encrypt / cipher.decrypt.  The DES block function is library code;
\* it is modelled by a keyed bijection of 8-byte blocks (the block reversed,
\* byte j shifted by key byte j), applied block by block as ECB does.
DesEncrypt(key, buf) ==
    LET p == Pkcs5Pad(buf)
    IN [i \in 1..Len(p) |->
           LET blk == (i - 1) \div BlockSize
               j == ((i - 1) % BlockSize) + 1
           IN (p[blk * BlockSize + (BlockSize + 1 - j)] + key[j]) % 256]
\* decrypt raises ValueError when the input is no multiple of 8 bytes
DesDecrypt(key, buf) ==
    IF Len(buf) % BlockSize # 0 THEN [ok |-> FALSE, bytes |-> <<>>]
    ELSE [ok |-> TRUE,
          bytes |-> Pkcs5Unpad(
              [i \in 1..Len(buf) |->
                  LET blk == (i - 1) \div BlockSize
                      j == ((i - 1) % BlockSize) + 1
                      m == BlockSize + 1 - j
                  IN (buf[blk * BlockSize + m] + 256 - key[m]) % 256])]

\* JSON values
IntV(n) == [kind |-> "int", int |-> n, str |-> <<>>, sub |-> <<>>]
StrV(s) == [kind |-> "str", int |-> 0, str |-> s, sub |-> <<>>]
BoolV(b) == [kind |-> "bool", int |-> IF b THEN 1 ELSE 0, str |-> <<>>, sub |-> <<>>]
NullV == [kind |-> "null", int |-> 0, str |-> <<>>, sub |-> <<>>]
DictV(members) == [kind |-> "dict", int |-> 0, str |-> <<>>, sub |-> members]
Member(key, v) ==
    [key |-> key, kind |-> v.kind, int |-> v.int, str |-> v.str, sub |-> v.sub]
ValueOf(m) == [kind |-> m.kind, int |-> m.int, str |-> m.str, sub |-> m.sub]

\* json.dumps(body): ", " and ": " separators, strings quoted with the
\* quote and the backslash escaped
RECURSIVE IntToStr(_)
IntToStr(n) ==
    IF n < 0 THEN <<"-">> \o IntToStr(0 - n)
    ELSE IF n < 10 THEN <<DigitChars[n + 1]>>
    ELSE IntToStr(n \div 10) \o <<DigitChars[(n % 10) + 1]>>
RECURSIVE EscapeStr(_)
EscapeStr(s) ==
    IF s = <<>> THEN <<>>
    ELSE (IF Head(s) \in {"\"", "\\"} THEN <<"\\", Head(s)>> ELSE <<Head(s)>>)
         \o EscapeStr(Tail(s))
Quoted(s) == <<"\"">> \o EscapeStr(s) \o <<"\"">>
RECURSIVE DumpsValue(_)
RECURSIVE DumpsMembers(_)
DumpsValue(v) ==
    CASE v.kind = "int" -> IntToStr(v.int)
      [] v.kind = "str" -> Quoted(v.str)
      [] v.kind = "bool" -> (IF v.int = 1 THEN <<"t", "r", "u", "e">>
                             ELSE <<"f", "a", "l", "s", "e">>)
      [] v.kind = "null" -> <<"n", "u", "l", "l">>
      [] OTHER -> <<"{">> \o DumpsMembers(v.sub) \o <<"}">>
DumpsMembers(ms) ==
    IF ms = <<>> THEN <<>>
    ELSE Quoted(Head(ms).key) \o <<":", " ">> \o DumpsValue(ValueOf(Head(ms)))
         \o (IF Tail(ms) = <<>> THEN <<>> ELSE <<",", " ">> \o DumpsMembers(Tail(ms)))
Dumps(body) == DumpsValue(DictV(body))

\* json.loads(text): a recursive descent over the characters
ParseFail == [ok |-> FALSE, next |-> 0, val |-> NullV]
Parsed(v, next) == [ok |-> TRUE, next |-> next, val |-> v]
RECURSIVE SkipWs(_, _)
SkipWs(text, i) ==
    IF i <= Len(text) /\ text[i] = " " THEN SkipWs(text, i + 1) ELSE i
Matches(text, i, word) ==
    /\ i + Len(word) - 1 <= Len(text)
    /\ \A k \in 1..Len(word) : text[i + k - 1] = word[k]
\* the characters after an opening quote up to the closing one
RECURSIVE ParseString(_, _, _)
ParseString(text, i, acc) ==
    IF i > Len(text) THEN ParseFail
    ELSE IF text[i] = "\"" THEN Parsed(StrV(acc), i + 1)
    ELSE IF text[i] = "\\"
         THEN (IF i + 1 <= Len(text) /\ text[i + 1] \in {"\"", "\\"}
               THEN ParseString(text, i + 2, Append(acc, text[i + 1]))
               ELSE ParseFail)
    ELSE ParseString(text, i + 1, Append(acc, text[i]))
RECURSIVE ParseDigits(_, _, _, _)
ParseDigits(text, i, n, count) ==
    IF i <= Len(text) /\ InSeq(DigitChars, text[i])
    THEN ParseDigits(text, i + 1, 10 * n + IndexOf(DigitChars, text[i]) - 1, count + 1)
    ELSE IF count = 0 THEN ParseFail ELSE Parsed(IntV(n), i)
ParseNumber(text, i) ==
    IF text[i] = "-"
    THEN LET r == ParseDigits(text, i + 1, 0, 0)
         IN IF r.ok THEN Parsed(IntV(0 - r.val.int), r.next) ELSE ParseFail
    ELSE ParseDigits(text, i, 0, 0)
RECURSIVE ParseValue(_, _)
RECURSIVE ParseMembers(_, _, _)
ParseValue(text, i) ==
    IF i > Len(text) THEN ParseFail
    ELSE IF text[i] = "\"" THEN ParseString(text, i + 1, <<>>)
    ELSE IF text[i] = "{"
         THEN (IF SkipWs(text, i + 1) <= Len(text) /\ text[SkipWs(text, i + 1)] = "}"
               THEN Parsed(DictV(<<>>), SkipWs(text, i + 1) + 1)
               ELSE ParseMembers(text, SkipWs(text, i + 1), <<>>))
    ELSE IF Matches(text, i, <<"t", "r", "u", "e">>) THEN Parsed(BoolV(TRUE), i + 4)
    ELSE IF Matches(text, i, <<"f", "a", "l", "s", "e">>) THEN Parsed(BoolV(FALSE), i + 5)
    ELSE IF Matches(text, i, <<"n", "u", "l", "l">>) THEN Parsed(NullV, i + 4)
    ELSE ParseNumber(text, i)
ParseMembers(text, i, acc) ==
    IF i > Len(text) \/ text[i] # "\"" THEN ParseFail
    ELSE LET k == ParseString(text, i + 1, <<>>)
             colon == SkipWs(text, k.next)
         IN IF ~k.ok \/ colon > Len(text) \/ text[colon] # ":" THEN ParseFail
            ELSE LET v == ParseValue(text, SkipWs(text, colon + 1))
                     after == SkipWs(text, v.next)
                     members == Append(acc, Member(k.val.str, v.val))
                 IN IF ~v.ok \/ after > Len(text) THEN ParseFail
                    ELSE IF text[after] = ","
                         THEN ParseMembers(text, SkipWs(text, after + 1), members)
                    ELSE IF text[after] = "}" THEN Parsed(DictV(members), after + 1)
                    ELSE ParseFail
Loads(text) ==
    LET r == ParseValue(text, SkipWs(text, 1))
    IN IF r.ok /\ SkipWs(text, r.next) = Len(text) + 1 THEN r ELSE ParseFail

_encrypt_body_Empty(c, body) ==
    IF ~c.encryption THEN DictV(body)
    ELSE IF c.des = "import_error" THEN DictV(body)
    ELSE IF ~ValidKey(DesKey(c.secret_key)) THEN DictV(<<>>)
    ELSE StrV(B64Encode(DesEncrypt(DesKey(c.secret_key), Utf8Encode(Dumps(body)))))
\* _encrypt_body(body) of client c = [encryption, secret_key, des]: the
\* Base64 ciphertext as a str, or the body itself when encryption is off,
\* pyDes is missing or the cipher raises
_encrypt_body(c, body) ==
    IF ~c.encryption THEN DictV(body)
    ELSE IF c.des = "import_error" THEN DictV(body)
    ELSE IF ~ValidKey(DesKey(c.secret_key)) THEN DictV(body)
    ELSE StrV(B64Encode(DesEncrypt(DesKey(c.secret_key), Utf8Encode(Dumps(body)))))

\* _decrypt_body(encrypted_body): a mapping is returned as it is; a str is
\* decoded, decrypted and parsed, {} on any failure
_decrypt_body(c, encrypted_body) ==
    IF ~c.encryption \/ encrypted_body.kind = "dict"
    THEN (IF encrypted_body.kind = "dict" THEN encrypted_body ELSE DictV(<<>>))
    ELSE IF c.des = "import_error" THEN DictV(<<>>)
    ELSE IF ~ValidKey(DesKey(c.secret_key)) THEN DictV(<<>>)
    ELSE LET encrypted == B64Decode(encrypted_body.str)
             decrypted == DesDecrypt(DesKey(c.secret_key), encrypted.bytes)
             text == Utf8Decode(decrypted.bytes)
             loaded == Loads(text.str)
         IN IF encrypted.ok /\ decrypted.ok /\ text.ok /\ loaded.ok
            THEN loaded.val ELSE DictV(<<>>)

CodecKeys ==
    {<<>>, <<"k">>, <<"s", "e", "c", "r", "e", "t", "k", "e", "y", "1">>,
     <<NonAscii, "k">>, <<"s", "e", "c", "r", "e", "t", "k", NonAscii>>}
Key_deviceId == <<"d", "e", "v", "i", "c", "e", "I", "d">>
Key_screenId == <<"s", "c", "r", "e", "e", "n", "I", "d">>
Key_audio == <<"a", "u", "d", "i", "o">>
Key_name == <<"n", "a", "m", "e">>
CodecNames == {<<>>, <<"H", "D", "M", "I">>, <<"a", "\"", "b", "\\", "c">>, <<"1", "2">>}
CodecNumbers == {-1, 0, 7, 100, 255}
\* request bodies: string keys, values that are numbers, strings, booleans,
\* null or mappings of these
CodecPayloads ==
    {<<>>}
    \cup {<<Member(Key_deviceId, IntV(n))>> : n \in CodecNumbers}
    \cup {<<Member(Key_deviceId, IntV(0)), Member(Key_screenId, IntV(n))>> :
             n \in CodecNumbers}
    \cup {<<Member(Key_screenId, IntV(0)), Member(Key_name, StrV(s))>> : s \in CodecNames}
    \cup {<<Member(Key_name, v)>> : v \in {BoolV(TRUE), BoolV(FALSE), NullV}}
    \cup {<<Member(Key_screenId, IntV(0)),
            Member(Key_audio, DictV(<<Member(Key_name, StrV(s)),
                                      Member(Key_deviceId, IntV(n))>>))>> :
             s \in CodecNames, n \in {-1, 100}}
    \cup {<<Member(Key_audio, DictV(<<>>))>>}

CodecCalls ==
    {[fn |-> "codec",
      args |-> [client |-> [encryption |-> e, secret_key |-> k, des |-> x],
                body |-> b],
      out |-> <<>>] :
        e \in BOOLEAN, k \in CodecKeys, x \in {"ok", "import_error"},
        b \in CodecPayloads}

\* _decrypt_body(_encrypt_body(body))
RoundTrip ==
    /\ Pending("codec")
    /\ \E encrypted \in {_encrypt_body(call.args.client, call.args.body)} :
          call' = [call EXCEPT !.out =
                      Some([encrypted |-> encrypted,
                            decrypted |-> _decrypt_body(call.args.client, encrypted)])]
    /\ PureFrame

InitCodec == Constructed /\ live = "input" /\ call \in CodecCalls
NextCodec == RoundTrip
SpecCodec == InitCodec /\ [][NextCodec]_vars

\* ------------------------------------------------ aggregation sub-requests
\* async_get_state as a function of what _async_request returned to each of
\* its getters: <<>> is None, <<[kind, ...]>> a mapping (kind "dict") or a
\* non-empty sequence (kind "list") with the keys the getter reads, each <<>>
\* when the key is absent.
DefaultBrightness == 100
OrDefault(opt, default) == IF IsSome(opt) THEN opt[1] ELSE default
IsDict(answer) == IsSome(answer) /\ answer[1].kind = "dict"

\* async_get_screens: a NovastarScreen per item of data["screens"]
GetScreens(answer) ==
    IF IsDict(answer) /\ IsSome(answer[1].screens)
    THEN [k \in 1..Len(answer[1].screens[1]) |->
             [screen_id |-> OrDefault(answer[1].screens[1][k].screenId, 0),
              name |-> OrDefault(answer[1].screens[1][k].name, "")]]
    ELSE <<>>
\* async_get_presets: a NovastarPreset per item of data["presets"]
GetPresets(answer) ==
    IF IsDict(answer) /\ IsSome(answer[1].presets)
    THEN [k \in 1..Len(answer[1].presets[1]) |->
             [preset_id |-> OrDefault(answer[1].presets[1][k].presetId, 0),
              name |-> OrDefault(answer[1].presets[1][k].name, "")]]
    ELSE <<>>
\* async_get_current_preset: "if data: return data.get('presetId', -1)";
\* a sequence has no get and the call raises AttributeError
GetCurrentPreset(answer) ==
    IF ~IsSome(answer) THEN [value |-> NoPreset, raised |-> FALSE]
    ELSE IF answer[1].kind = "list" THEN [value |-> NoPreset, raised |-> TRUE]
    ELSE [value |-> OrDefault(answer[1].presetId, NoPreset), raised |-> FALSE]
GetBrightness_Zero(answer) ==
    IF IsDict(answer) THEN OrDefault(answer[1].brightness, DefaultBrightness) ELSE 0
\* async_get_brightness
GetBrightness(answer) ==
    IF IsDict(answer) THEN OrDefault(answer[1].brightness, DefaultBrightness)
    ELSE DefaultBrightness
\* async_get_device_status_info
GetDeviceStatusInfo(answer) ==
    IF IsDict(answer)
    THEN [temp_status |-> answer[1].temp,
          device_status |-> answer[1].status,
          signal_status |-> IF IsSome(answer[1].powerList)
                               /\ answer[1].powerList[1] # <<>>
                            THEN answer[1].powerList[1][1].iSignal ELSE <<>>]
    ELSE [temp_status |-> <<>>, device_status |-> <<>>, signal_status |-> <<>>]
\* async_get_input_list / async_get_layer_list: the entries, [] on None
GetList(answer) == IF IsSome(answer) THEN answer[1] ELSE <<>>

\* a = [screens, presets, play, brightness, device, lists, resps, bkg, audio]
AsyncGetState(a) ==
    LET play == GetCurrentPreset(a.play)
        g == GetState(play.value,
                      [c \in Colls |-> GetList(a.lists[c])], a.resps, a.bkg)
        temp_data == GetDeviceStatusInfo(a.device)
        audio_state == AudioState(g.state.layers, a.audio, <<>>, <<>>)
    IN [raised |-> play.raised,
        screens |-> GetScreens(a.screens),
        presets |-> GetPresets(a.presets),
        current_preset_id |-> g.state.current_preset_id,
        brightness |-> GetBrightness(a.brightness),
        temp_status |-> temp_data.temp_status,
        device_status |-> temp_data.device_status,
        signal_status |-> temp_data.signal_status,
        inputs |-> g.state.inputs,
        layers |-> g.state.layers,
        backgrounds |-> g.state.backgrounds,
        audio_inputs |-> audio_state.inputs,
        audio_input_id |-> audio_state.input_id,
        audio_volume |-> audio_state.volume]

ScreenLists ==
    {<<>>, Some([kind |-> "dict", screens |-> <<>>]),
     Some([kind |-> "dict",
           screens |-> Some(<<[screenId |-> Some(1), name |-> Some("wall")],
                              [screenId |-> <<>>, name |-> <<>>]>>)])}
PresetLists ==
    {<<>>, Some([kind |-> "dict", presets |-> <<>>]),
     Some([kind |-> "dict",
           presets |-> Some(<<[presetId |-> Some(2), name |-> Some("day")]>>)])}
PresetPlays ==
    {<<>>, Some([kind |-> "list", presetId |-> <<>>])}
    \cup {Some([kind |-> "dict", presetId |-> p]) : p \in {<<>>, Some(1)}}
ScreenDetails ==
    {<<>>, Some([kind |-> "list", brightness |-> <<>>])}
    \cup {Some([kind |-> "dict", brightness |-> b]) : b \in {<<>>, Some(40), Some(150)}}
\* the answers of screen/readDetail to async_get_audio_state: None, or an
\* audio mapping that reports a volume
AudioDetails ==
    {<<>>} \cup {Some([audio |-> Some(b)]) : b \in AudioBlocks({}, {}, {-5, 150}, {})}
DeviceDetails ==
    {<<>>,
     Some([kind |-> "dict", temp |-> <<>>, status |-> <<>>, powerList |-> <<>>]),
     Some([kind |-> "dict", temp |-> Some(1), status |-> <<>>, powerList |-> Some(<<>>)]),
     Some([kind |-> "dict", temp |-> Some(0), status |-> Some(1),
           powerList |-> Some(<<[iSignal |-> Some(1)]>>)])}
\* a list read that fails, one that is empty, and one whose detail reads
\* all fail or all succeed
AggregateLists(c) ==
    LET l == <<Entry(NoId, "a", AudioOf(c)), Entry(2, "b", AudioOf(c)),
               Entry(1, "a", AudioOf(c))>>
    IN {[list |-> <<>>, resp |-> <<>>], [list |-> Some(<<>>), resp |-> <<>>],
        [list |-> Some(l), resp |-> <<NoDetail, NoDetail, NoDetail>>],
        [list |-> Some(l), resp |-> <<NoDetail, "d1", "d1">>]}

GetStateCalls ==
    {[fn |-> "get_state",
      args |-> [screens |-> s, presets |-> p, play |-> y, brightness |-> b,
                device |-> v,
                lists |-> [input |-> li.list, layer |-> ll.list],
                resps |-> [input |-> li.resp, layer |-> ll.resp],
                bkg |-> k, audio |-> au],
      out |-> <<>>] :
        s \in ScreenLists, p \in PresetLists, y \in PresetPlays,
        b \in ScreenDetails, v \in DeviceDetails,
        li \in AggregateLists("input"), ll \in AggregateLists("layer"),
        k \in {<<>>, <<(<<2, 1>>)>>}, au \in AudioDetails}

Aggregate ==
    /\ Pending("get_state")
    /\ call' = [call EXCEPT !.out = Some(AsyncGetState(call.args))]
    /\ PureFrame

InitAggregate == Constructed /\ live = "input" /\ call \in GetStateCalls
NextAggregate == Aggregate
SpecAggregate == InitAggregate /\ [][NextAggregate]_vars

\* ------------------------------------- the requests of async_set_audio_input
\* One call of async_set_audio_input on the constructed client: the device
\* state and the layer id are the inputs, out keeps the requests the call has
\* sent and the merged layer list of its first refresh.
AudioInputCalls ==
    {[fn |-> "set_audio_input", args |-> [dev |-> dev, input_id |-> id],
      out |-> <<>>] : dev \in Devices, id \in AudioInputIds}

SetAudioInputCall ==
    /\ Pending("set_audio_input")
    /\ \E o \in SetAudioInputOutcomes(CollState("layer"), call.args.dev,
                                      call.args.input_id, TRUE) :
          /\ StoreAudioOutcome(call.args.input_id, o)
          /\ call' = [call EXCEPT !.out = Some([log |-> o.log, first |-> o.first])]

InitAudioCall == Constructed /\ live = "input" /\ call \in AudioInputCalls
NextAudioCall == SetAudioInputCall
SpecAudioCall == InitAudioCall /\ [][NextAudioCall]_vars

\* ------------------------------------------- audio output and volume writes
\* An audio mapping is a function over AudioKeys; Absent marks a key the
\* mapping does not hold.  AudioValues are the values the device reports.
AudioKeys == {"mode", "outputChannelMode", "volume", "outputVolume"}
Absent == -1
AudioValues == {0, 7}
NoBlock == [k \in AudioKeys |-> Absent]
AudioMappings == [AudioKeys -> AudioValues \cup {Absent}]

\* what screen/readDetail returns: None, a list, a mapping without "audio",
\* a mapping whose "audio" is a list, or a mapping with an audio mapping
ReadDetailAnswers ==
    {[kind |-> k, audio |-> NoBlock] :
        k \in {"none", "list", "dict_no_audio", "dict_audio_list"}}
    \cup {[kind |-> "dict", audio |-> b] : b \in AudioMappings}

\* a request: the endpoint, payload_base, and the one further key of the
\* payload with its value, a number (scalar) or an audio mapping
WriteRequest(endpoint, payload_base, key, scalar, audio) ==
    [endpoint |-> endpoint, base |-> payload_base, key |-> key,
     scalar |-> scalar, audio |-> audio]
ReadDetailRequest(payload_base) ==
    WriteRequest("screen/readDetail", payload_base, "none", Absent, NoBlock)

MergedAudioPayload_Only(audio_data, keys, value) ==
    [k \in AudioKeys |-> IF k \in keys THEN value ELSE Absent]
\* "merged_audio_payload = dict(audio_data)" followed by the assignments of
\* the new value to keys
MergedAudioPayload(audio_data, keys, value) ==
    [k \in AudioKeys |-> IF k \in keys THEN value ELSE audio_data[k]]

\* <<>> for None
MergedPayloadOf(screen_detail_data, keys, value) ==
    IF screen_detail_data.kind = "dict"
    THEN Some(MergedAudioPayload(screen_detail_data.audio, keys, value))
    ELSE <<>>

MergedCandidate(payload_base, merged_audio_payload) ==
    IF IsSome(merged_audio_payload)
    THEN <<WriteRequest("screen/writeDetail", payload_base, "audio", Absent,
                        merged_audio_payload[1])>>
    ELSE <<>>

\* the candidates of async_set_audio_output after the merged one
OutputCandidates(payload_base, output_id) ==
    <<WriteRequest("audio/writeOutput", payload_base, "audioOutputId", output_id, NoBlock),
      WriteRequest("audio/writeOutput", payload_base, "outputId", output_id, NoBlock),
      WriteRequest("audio/writeOutput", payload_base, "outputChannelMode", output_id, NoBlock),
      WriteRequest("screen/writeAudioOutput", payload_base, "outputId", output_id, NoBlock),
      WriteRequest("screen/writeAudioOutput", payload_base, "outputChannelMode", output_id,
                   NoBlock),
      WriteRequest("screen/writeDetail", payload_base, "audio", Absent,
                   [NoBlock EXCEPT !["outputChannelMode"] = output_id]),
      WriteRequest("audio/write", payload_base, "audioOutputId", output_id, NoBlock)>>

\* the candidates of async_set_audio_volume after the merged one
VolumeCandidates(payload_base, clamped_volume) ==
    <<WriteRequest("audio/writeVolume", payload_base, "volume", clamped_volume, NoBlock),
      WriteRequest("screen/writeVolume", payload_base, "volume", clamped_volume, NoBlock),
      WriteRequest("screen/writeDetail", payload_base, "audio", Absent,
                   [NoBlock EXCEPT !["volume"] = clamped_volume,
                                   !["outputVolume"] = clamped_volume]),
      WriteRequest("audio/write", payload_base, "volume", clamped_volume, NoBlock)>>

\* _async_request_first_success(valid_candidates) when the device accepts
\* the first_ok-th write request it receives (0: none of them)
TriedCandidates(valid_candidates, first_ok) ==
    IF first_ok \in 1..Len(valid_candidates)
    THEN SubSeq(valid_candidates, 1, first_ok)
    ELSE valid_candidates

WriteAudioResult(payload_base, valid_candidates, first_ok) ==
    [candidates |-> valid_candidates,
     requests |-> <<ReadDetailRequest(payload_base)>>
                  \o TriedCandidates(valid_candidates, first_ok),
     ret |-> first_ok \in 1..Len(valid_candidates)]

PayloadBase(screen_id, device_id) == [screenId |-> screen_id, deviceId |-> device_id]

\* async_set_audio_output(output_id, screen_id, device_id)
async_set_audio_output(output_id, screen_id, device_id, screen_detail_data, first_ok) ==
    LET payload_base == PayloadBase(screen_id, device_id)
        merged_audio_payload ==
            MergedPayloadOf(screen_detail_data, {"outputChannelMode"}, output_id)
    IN WriteAudioResult(payload_base,
                        MergedCandidate(payload_base, merged_audio_payload)
                        \o OutputCandidates(payload_base, output_id), first_ok)

\* async_set_audio_volume(volume, screen_id, device_id)
async_set_audio_volume(volume, screen_id, device_id, screen_detail_data, first_ok) ==
    LET clamped_volume == Clamp(volume)
        payload_base == PayloadBase(screen_id, device_id)
        merged_audio_payload ==
            MergedPayloadOf(screen_detail_data, {"volume", "outputVolume"}, clamped_volume)
    IN WriteAudioResult(payload_base,
                        MergedCandidate(payload_base, merged_audio_payload)
                        \o VolumeCandidates(payload_base, clamped_volume), first_ok)

OutputIds == {1, 2}
Volumes == {-5, 50, 150}
ScreenIds == {0, 1}
MaxWrites == 8      \* the longest candidate list

AudioWriteCalls ==
    {[fn |-> f, args |-> [value |-> v, screen_id |-> s, read |-> r, first_ok |-> n],
      out |-> <<>>] :
        f \in {"audio_output"}, v \in OutputIds, s \in ScreenIds,
        r \in ReadDetailAnswers, n \in 0..MaxWrites}
    \cup
    {[fn |-> f, args |-> [value |-> v, screen_id |-> s, read |-> r, first_ok |-> n],
      out |-> <<>>] :
        f \in {"audio_volume"}, v \in Volumes, s \in ScreenIds,
        r \in ReadDetailAnswers, n \in 0..MaxWrites}

WriteAudioOutput ==
    /\ Pending("audio_output")
    /\ call' = [call EXCEPT !.out = Some(async_set_audio_output(call.args.value,
                                call.args.screen_id, 0, call.args.read,
                                call.args.first_ok))]
    /\ PureFrame
WriteAudioVolume ==
    /\ Pending("audio_volume")
    /\ call' = [call EXCEPT !.out = Some(async_set_audio_volume(call.args.value,
                                call.args.screen_id, 0, call.args.read,
                                call.args.first_ok))]
    /\ PureFrame

InitAudioWrites == Constructed /\ live = "input" /\ call \in AudioWriteCalls
NextAudioWrites == WriteAudioOutput \/ WriteAudioVolume
SpecAudioWrites == InitAudioWrites /\ [][NextAudioWrites]_vars

\* ------------------------------------------------------ the background cache
\* what bkg/readAllList answers: None, an empty list, or two backgrounds
BackgroundAnswers == {<<>>, Some(<<>>), Some(<<2, 1>>)}

\* async_get_background_list(device_id) called on the client
GetBackgroundListCall ==
    /\ background_refresh_counter < MaxCycles
    /\ \E answer \in BackgroundAnswers :
       \E b \in {GetBackgroundList([cache |-> background_list_cache,
                                    counter |-> background_refresh_counter,
                                    force |-> force_refresh_backgrounds], answer)} :
          /\ background_list_cache' = b.cache
          /\ background_refresh_counter' = b.counter
          /\ force_refresh_backgrounds' = b.force
          /\ ev' = [NoEvent EXCEPT !.op = "get_background_list",
                                   !.requested = b.requested, !.returned = b.cache]
          /\ UNCHANGED <<detail_cache, signature_cache, refresh_counter,
                         force_refresh_details, last_preset_id, coordVars, lastList,
                         lastClean, writePending, lastWritten, sinceFetch, live,
                         taskVars, call>>

NextBackground == GetBackgroundListCall \/ SetBackground
SpecBackground == Init /\ [][NextBackground]_vars

\* ------------------------------------------------------------ the entities
\* NovastarMediaPlayer.async_turn_on / async_turn_off: the entity awaits the
\* client's async_set_ftb itself (result = screen/ftb returned non-None) and
\* then coordinator.async_request_refresh(), which runs one refresh.
MediaPlayerTurn ==
    /\ refreshed
    /\ background_refresh_counter < MaxPolls
    /\ \E on \in BOOLEAN, result \in BOOLEAN :
       \E current_preset_id \in {NoPreset, 1} :
        \E ri \in DetailResponses(<<Entry(1, "a", NoAudio)>>, {"d1"}) :
          \E bkg \in {<<>>, <<(<<2, 1>>)>>} :
            PollAfter(current_preset_id,
                      [input |-> <<Entry(1, "a", NoAudio)>>, layer |-> <<>>],
                      [input |-> ri, layer |-> <<>>], bkg, FALSE, "media_player",
                      IF result THEN [lastWritten EXCEPT !.ftb = ~on]
                      ELSE lastWritten)

\* The FTB switch (SetFtb), the media player and the periodic refresh.
NextEntities == Poll \/ SetFtb \/ MediaPlayerTurn
SpecEntities == Init /\ [][NextEntities]_vars

\* ------------------------------------------------------- cipher failures
\* _build_request(body) at timestamp T with the body codec above: body_str
\* is the ciphertext when _encrypt_body returned a str, else json.dumps(body)
_build_request(c, body, timestamp) ==
    LET body_payload == _encrypt_body(c, body)
        body_str == IF body_payload.kind = "str" THEN body_payload.str ELSE Dumps(body)
    IN [body |-> body_payload,
        sign |-> GenerateSignature(c.encryption, body_str, timestamp,
                                   c.project_id, c.secret_key),
        pId |-> c.project_id,
        timeStamp |-> timestamp]

CipherClients ==
    {[encryption |-> e, secret_key |-> k, des |-> x, project_id |-> <<"p">>] :
        e \in BOOLEAN, k \in CodecKeys, x \in {"ok", "import_error"}}
\* the client whose ciphertexts the device's replies are
ReplyClient == [encryption |-> TRUE, secret_key |-> <<"k">>, des |-> "ok",
                project_id |-> <<"p">>]
\* response bodies that are strings: ciphertexts of the reply client, a
\* ciphertext cut short, text that is no Base64, and the empty string
CipherReplies ==
    {_encrypt_body(ReplyClient, b) :
        b \in {<<>>, <<Member(Key_deviceId, IntV(7))>>,
               <<Member(Key_name, StrV(<<"H", "D", "M", "I">>))>>}}
    \cup {StrV(SubSeq(_encrypt_body(ReplyClient, <<>>).str, 1, 4)),
          StrV(<<"!", "!">>), StrV(<<>>)}

CipherCalls ==
    {[fn |-> "build", args |-> [client |-> c, body |-> b, timestamp |-> <<"1", "7">>],
      out |-> <<>>] : c \in CipherClients, b \in CodecPayloads}
    \cup
    {[fn |-> "decrypt", args |-> [client |-> c, reply |-> r], out |-> <<>>] :
        c \in CipherClients, r \in CipherReplies}

BuildRequestCall ==
    /\ Pending("build")
    /\ call' = [call EXCEPT !.out =
                   Some([encrypted |-> _encrypt_body(call.args.client, call.args.body),
                         request |-> _build_request(call.args.client, call.args.body,
                                                    call.args.timestamp)])]
    /\ PureFrame
DecryptCall ==
    /\ Pending("decrypt")
    /\ call' = [call EXCEPT !.out =
                   Some(_decrypt_body(call.args.client, call.args.reply))]
    /\ PureFrame

InitCipher == Constructed /\ live = "input" /\ call \in CipherCalls
NextCipher == BuildRequestCall \/ DecryptCall
SpecCipher == InitCipher /\ [][NextCipher]_vars

\* ------------------------------------------------------- the network scan
\* discovery.py.  A host is its address and the way it answers the three
\* attempts of probe_host: the TCP connect, the POST to device/readDetail
\* and the GET of the base URL.
MAX_CONCURRENT_PROBES == 50
MaxHosts == 52           \* length of the longest host list scanned

Host(addr, connect, api, server) ==
    [addr |-> addr, connect |-> connect, api |-> api, server |-> server]
DiscoveredDevice(h) == [host |-> h.addr, name |-> <<"Novastar @ ", h.addr>>]

\* probe_host: <<>> or <<device>>; every exception ends in "return None"
probe_host(h) ==
    IF h.connect # "open" THEN <<>>
    ELSE IF h.api = "status" THEN Some(DiscoveredDevice(h))
    ELSE IF h.server = "gunicorn" THEN Some(DiscoveredDevice(h))
    ELSE <<>>

\* the ways a host answers: a device, a host that lets the connect time
\* out, a device recognised by its server header only, a web server that is
\* no device, a host that refuses the connection
HostKinds == <<Host(0, "open", "status", "other"),
               Host(0, "timeout", "error", "error"),
               Host(0, "open", "error", "gunicorn"),
               Host(0, "open", "list", "other"),
               Host(0, "refused", "error", "error")>>
\* most addresses of a scanned range refuse the connection
HostAt(i) == [HostKinds[IF i % 25 \in 1..4 THEN i % 25 ELSE 5] EXCEPT !.addr = i]
HostList(n) == [i \in 1..n |-> HostAt(i)]
HostLists == {HostList(n) : n \in {0, 1, 3, MAX_CONCURRENT_PROBES, MaxHosts}}
                 \cup {<<HostAt(1), HostAt(1)>>}

SameAnswers(g, h) == [g EXCEPT !.addr = 0] = [h EXCEPT !.addr = 0]
InFlight(s) == {i \in 1..Len(s.hosts) : s.status[i] = "probing"}
Waiting(s) == {i \in 1..Len(s.hosts) : s.status[i] = "waiting"}

\* asyncio.Semaphore(MAX_CONCURRENT_PROBES) of one scan
NewSemaphore_PerHost(hosts) == Len(hosts)
NewSemaphore(hosts) == MAX_CONCURRENT_PROBES

\* scan_network up to the await of gather: the tasks take their first step
\* in list order, each acquires the semaphore while its value is positive
\* and suspends inside probe_host, the others queue on the semaphore
ScanNetwork ==
    \E hosts \in HostLists :
      LET n == Len(hosts)
          value == NewSemaphore(hosts)
          started == IF n < value THEN n ELSE value
      IN /\ scan.pc \in {"idle", "returned"}
         /\ scan' = IF hosts = <<>>
                    THEN [NoScan EXCEPT !.pc = "returned"]
                    ELSE [pc |-> "gather", hosts |-> hosts,
                          status |-> [i \in 1..n |-> IF i <= started THEN "probing"
                                                     ELSE "waiting"],
                          probes |-> [i \in 1..n |-> IF i <= started THEN 1 ELSE 0],
                          value |-> value - started,
                          results |-> [i \in 1..n |-> <<>>],
                          discovered |-> <<>>]
         /\ UNCHANGED <<clientVars, coordVars, histVars, flight, reads, call>>

\* probe_host of task i returns and "async with semaphore" releases: the
\* slot goes to the first task queued on the semaphore, or back to the
\* value.  Probes in flight of hosts that answer alike return in the order
\* they were started.
ProbeReturns ==
    \E i \in InFlight(scan) :
      LET queue == Waiting(scan)
          next == CHOOSE j \in queue : \A k \in queue : j <= k
      IN /\ scan.pc = "gather"
         /\ \A j \in InFlight(scan) :
               SameAnswers(scan.hosts[j], scan.hosts[i]) => i <= j
         /\ scan' = [scan EXCEPT
                       !.results[i] = probe_host(scan.hosts[i]),
                       !.status = IF queue = {} THEN [@ EXCEPT ![i] = "done"]
                                  ELSE [@ EXCEPT ![i] = "done", ![next] = "woken"],
                       !.value = IF queue = {} THEN @ + 1 ELSE @]
         /\ UNCHANGED <<clientVars, coordVars, histVars, flight, reads, call>>

\* a task woken by a release resumes inside "async with" and calls probe_host
ProbeStarts ==
    \E i \in 1..Len(scan.hosts) :
      /\ scan.pc = "gather"
      /\ scan.status[i] = "woken"
      /\ scan' = [scan EXCEPT !.status[i] = "probing", !.probes[i] = @ + 1]
      /\ UNCHANGED <<clientVars, coordVars, histVars, flight, reads, call>>

\* the devices among the results of gather, in the order of the hosts
RECURSIVE Discovered(_)
Discovered(results) ==
    IF results = <<>> THEN <<>>
    ELSE (IF IsSome(Head(results)) THEN <<Head(results)[1]>> ELSE <<>>)
         \o Discovered(Tail(results))

\* every task is done: gather returns and scan_network filters the results
ScanReturns ==
    /\ scan.pc = "gather"
    /\ \A i \in 1..Len(scan.hosts) : scan.status[i] = "done"
    /\ scan' = [scan EXCEPT !.pc = "returned", !.discovered = Discovered(scan.results)]
    /\ UNCHANGED <<clientVars, coordVars, histVars, flight, reads, call>>

\* The event loop runs every task that can run, and every await of
\* probe_host ends within PROBE_TIMEOUT.
NextScan == ScanNetwork \/ ProbeReturns \/ ProbeStarts \/ ScanReturns
SpecScan == Init /\ [][NextScan]_vars /\ WF_vars(NextScan)

\* ------------------------------------------------- the raw command service
\* __init__.py async_send_raw_command.  hass.data[DOMAIN] is the sequence of
\* the loaded entries in insertion order; an entry has its client's host
\* and the allow_raw_commands values of its data and of its options, each
\* absent or a boolean; registered: hass.config_entries still knows it.
DEFAULT_ALLOW_RAW_COMMANDS == FALSE
EntryHosts == {<<"a">>, <<"b">>}
LoadedEntry(eid, host, in_data, in_options, registered) ==
    [eid |-> eid, host |-> host, data |-> in_data, options |-> in_options,
     registered |-> registered]

\* str.strip()
RECURSIVE LStrip(_)
LStrip(s) == IF s # <<>> /\ Head(s) = " " THEN LStrip(Tail(s)) ELSE s
RECURSIVE RStrip(_)
RStrip(s) == IF s # <<>> /\ s[Len(s)] = " " THEN RStrip(SubSeq(s, 1, Len(s) - 1)) ELSE s
Strip(s) == RStrip(LStrip(s))

\* index of the first entry whose client has the host, 0 when there is none
FirstWithHost(entries, host) ==
    IF \E i \in 1..Len(entries) : entries[i].host = host
    THEN CHOOSE i \in 1..Len(entries) :
            /\ entries[i].host = host
            /\ \A j \in 1..(i - 1) : entries[j].host # host
    ELSE 0

\* resolve_coordinator_by_host: [found, host, error]
resolve_coordinator_by_host(entries, host) ==
    IF IsSome(host)
    THEN IF FirstWithHost(entries, host[1]) # 0
         THEN [found |-> Some(FirstWithHost(entries, host[1])), host |-> host,
               error |-> <<>>]
         ELSE [found |-> <<>>, host |-> host, error |-> Some("no_device_at_host")]
    ELSE IF Len(entries) = 1
         THEN [found |-> Some(1), host |-> Some(entries[1].host), error |-> <<>>]
         ELSE IF entries = <<>>
         THEN [found |-> <<>>, host |-> <<>>, error |-> Some("no_devices")]
         ELSE [found |-> <<>>, host |-> <<>>, error |-> Some("multiple_devices")]

\* options.get(allow_raw_commands, data.get(allow_raw_commands, default)) of
\* the entry, False when hass.config_entries has no such entry
RawEnabled_Always(entry) == TRUE
RawEnabled(entry) ==
    IF ~entry.registered THEN FALSE
    ELSE IF IsSome(entry.options) THEN entry.options[1]
    ELSE IF IsSome(entry.data) THEN entry.data[1]
    ELSE DEFAULT_ALLOW_RAW_COMMANDS

\* the handler: what it returns and the request it made, if any; answer is
\* what the client's async_send_raw_command gives for the request
async_send_raw_command(entries, host_arg, answer) ==
    LET host == IF IsSome(host_arg) /\ Strip(host_arg[1]) # <<>>
                THEN Some(Strip(host_arg[1])) ELSE <<>>
        resolved == resolve_coordinator_by_host(entries, host)
        client_found == FirstWithHost(entries, resolved.host[1])
    IN IF resolved.found = <<>>
       THEN [ok |-> FALSE, error |-> resolved.error, sent |-> <<>>]
       ELSE IF client_found = 0
       THEN [ok |-> FALSE, error |-> Some("no_device_at_host"), sent |-> <<>>]
       ELSE IF ~RawEnabled(entries[client_found])
       THEN [ok |-> FALSE, error |-> Some("raw_disabled"), sent |-> <<>>]
       ELSE [ok |-> IsSome(answer), error |-> <<>>,
             sent |-> Some(entries[client_found].eid)]

RawFlags == {<<>>, <<TRUE>>, <<FALSE>>}
OneEntry == {<<LoadedEntry(1, h, d, o, r)>> :
                h \in EntryHosts, d \in RawFlags, o \in RawFlags, r \in BOOLEAN}
TwoEntries == {<<LoadedEntry(1, <<"a">>, d1, o1, TRUE),
                 LoadedEntry(2, <<"b">>, d2, o2, TRUE)>> :
                  d1 \in RawFlags, o1 \in RawFlags,
                  d2 \in RawFlags, o2 \in RawFlags}
HostArgs == {<<>>, Some(<<>>), Some(<<" ">>), Some(<<"a">>), Some(<<" ", "b", " ">>),
             Some(<<"c">>)}
RawCalls == {[fn |-> "send_raw_command",
              args |-> [entries |-> e, host |-> h, answer |-> a], out |-> <<>>] :
                e \in {<<>>} \cup OneEntry \cup TwoEntries, h \in HostArgs,
                a \in {<<>>, Some("response")}}

SendRawCommand ==
    /\ Pending("send_raw_command")
    /\ call' = [call EXCEPT !.out = Some(async_send_raw_command(
                                call.args.entries, call.args.host, call.args.answer))]
    /\ PureFrame

InitRaw == Constructed /\ live = "input" /\ call \in RawCalls
NextRaw == SendRawCommand
SpecRaw == InitRaw /\ [][NextRaw]_vars

\* ------------------------------------------- writes during a refresh
\* _async_update_data calls client.async_get_state and is suspended at its
\* requests; the coordinator's writes of other callers complete meanwhile.
PollBegins ==
    /\ flight["poll"].pc = "idle"
    /\ background_refresh_counter < MaxPolls
    /\ flight' = [flight EXCEPT !["poll"] =
                     [IdleTask EXCEPT !.pc = "state", !.began = Some(TrackedFlags)]]
    /\ ev' = [NoEvent EXCEPT !.op = "poll_start"]
    /\ UNCHANGED <<clientVars, coordVars, lastList, lastClean, writePending,
                   lastWritten, sinceFetch, live, reads, scan, call>>

\* async_get_state returns, the flags are overlaid and the result becomes
\* coordinator.data; the event tells whether the tracked flags changed
\* while the refresh was suspended
PollPublishes ==
    /\ flight["poll"].pc = "state"
    /\ flight' = [flight EXCEPT !["poll"] = IdleTask]
    /\ \E current_preset_id \in {NoPreset, 1} :
        \E ri \in DetailResponses(<<Entry(1, "a", NoAudio)>>, {"d1"}) :
          PollEnds(current_preset_id,
                   [input |-> <<Entry(1, "a", NoAudio)>>, layer |-> <<>>],
                   [input |-> ri, layer |-> <<>>], <<>>, FALSE,
                   IF flight["poll"].began = Some([ftb |-> ftb_active,
                                                   freeze |-> freeze_active])
                   THEN "poll" ELSE "poll_flags_changed",
                   lastWritten)
    /\ UNCHANGED <<reads, scan>>

NextOverlay == PollBegins \/ PollPublishes \/ SetFtb \/ SetFreeze
SpecOverlay == Init /\ [][NextOverlay]_vars

\* ==================================================================== claims
SnapshotFlags == [ftb |-> data[1].ftb_active, freeze |-> data[1].freeze_active]

\* C1: every snapshot that a poll cycle produces carries the ftb_active and
\* freeze_active values last written successfully through the coordinator
\* (false before any such write), although no device read reports them.
C1_FlagsSurvivePoll ==
    ev.op = "poll" => IsSome(data) /\ SnapshotFlags = lastWritten
C1_Witness ==
    /\ ev.op = "poll" /\ IsSome(data)
    /\ lastWritten.ftb /\ ~lastWritten.freeze
    /\ data[1].ftb_active /\ ~data[1].freeze_active

FailableWrites == {"set_ftb", "set_freeze", "load_preset", "set_layer_source",
                   "set_background"}

\* C3: a set_ftb, set_freeze, load_preset, set_layer_source or set_background
\* whose device write returns null returns false, raises nothing and leaves
\* the local flags, the force-refresh flags, the caches and the published
\* snapshot as they were.
C3_FailedWriteNoEffect ==
    [][(ev'.op \in FailableWrites /\ ~ev'.writeOk) =>
          /\ ~ev'.ret /\ ~ev'.raised
          /\ UNCHANGED <<ftb_active, freeze_active, force_refresh_details,
                         force_refresh_backgrounds, detail_cache, signature_cache,
                         background_list_cache, data, published>>]_vars
C3_Witness ==
    /\ ev.op \in FailableWrites /\ ~ev.writeOk /\ ~ev.ret
    /\ ftb_active /\ IsSome(published) /\ published[1].ftb_active
    /\ force_refresh_details["input"] /\ detail_cache["input"] # <<>>

\* C4: each coordinator write operation that the services and the select/number
\* entities await completes by returning a boolean; no exception reaches the
\* caller.
C4_CoordinatorWritesReturn ==
    ev.op \in CoordinatorWriteCalls => ~ev.raised

IsRefresh == ev.op \in {"get_with_details", "poll"}

\* C5 as stated: a cycle that sees the list of the previous cycle sends no
\* detail request unless its counter is a multiple of 12.
C5_IdempotenceAsStated ==
    \A c \in Colls :
      (IsRefresh /\ ev.cycle[c] /\ ev.same[c] /\ ~ev.periodic[c]) => ev.fetched[c] = {}
\* C5, amended: a cycle that sees the list of the previous cycle sends no
\* detail request unless its counter is a multiple of 12, provided every detail
\* request of the previous cycle succeeded and the force-refresh flag was not
\* set when the cycle started.
C5_Idempotence ==
    \A c \in Colls :
      (IsRefresh /\ ev.cycle[c] /\ ev.same[c] /\ ~ev.periodic[c]
         /\ ev.prevClean[c] /\ ~ev.forced[c]) => ev.fetched[c] = {}
C5_Witness ==
    \E c \in Colls :
      /\ IsRefresh /\ ev.cycle[c] /\ ev.same[c] /\ ~ev.periodic[c]
      /\ ev.prevClean[c] /\ ~ev.forced[c]
      /\ ValidIds(ev.list[c]) # {} /\ ev.fetched[c] = {}
      /\ DOMAIN detail_cache[c] = ValidIds(ev.list[c])

NotCached(c, i) == i \notin DOMAIN detail_cache[c] /\ i \notin DOMAIN signature_cache[c]

\* C6 as stated: an id listed in the previous cycle and not in this one has no
\* cache entry after this cycle, whatever this cycle's list response is.
C6_StalePruningAsStated ==
    \A c \in Colls : IsRefresh => \A i \in ev.dropped[c] : NotCached(c, i)
\* C6, amended: an id listed in the previous cycle and absent from the
\* non-empty list of this cycle has no entry in the detail cache nor in the
\* signature cache after this cycle.
C6_StalePruning ==
    \A c \in Colls :
      (IsRefresh /\ ev.cycle[c]) => \A i \in ev.dropped[c] : NotCached(c, i)
C6_Witness ==
    \E c \in Colls :
      /\ IsRefresh /\ ev.cycle[c]
      /\ ev.dropped[c] # {} /\ ev.pruned[c] = ev.dropped[c]
      /\ \A i \in ev.dropped[c] : NotCached(c, i)

\* C7: whenever set_audio_input(X) returns true, the layer list read by its
\* final verification holds exactly one eligible layer (isAvailable = 1) with
\* isOpen = 1, and that layer's id is X.
C7_AudioInputExclusive ==
    (ev.op = "set_audio_input" /\ ev.ret) =>
        /\ IsSome(ev.verified)
        /\ LET layers == ev.verified[1]
               open == {k \in DOMAIN layers : IsAvailable(layers[k].audio)
                                               /\ IsOpen(layers[k].audio)}
           IN /\ Cardinality(open) = 1
              /\ \A k \in open : layers[k].id = ev.arg

\* C8: a get_state that reads a preset id different from the one of the
\* previous get_state sets both force-refresh flags before the detail caches
\* run: the same call sends a detail request for every entry with an id of
\* the input list and of the layer list (a flag whose list came back empty
\* stays set).
C8_PresetChangeForcesRefresh ==
    (ev.op = "poll" /\ ev.presetChanged) =>
       \A c \in Colls :
         IF ev.cycle[c]
         THEN ev.forced[c] /\ ev.fetched[c] = ValidIds(ev.list[c])
         ELSE force_refresh_details[c]
C8_Witness ==
    /\ ev.op = "poll" /\ ev.presetChanged
    /\ \A c \in Colls :
         /\ ev.cycle[c] /\ ev.same[c] /\ ev.prevClean[c] /\ ~ev.periodic[c]
         /\ ev.fetched[c] = {1, 2}

\* C9: the first refresh of the input collection and of the layer collection
\* after a successful preset/play or layer/writeSource sends a detail request
\* for every entry with an id, whether or not its signature changed.
C9_WriteForcesRefresh ==
    \A c \in Colls :
      (IsRefresh /\ ev.owed[c]) => ev.fetched[c] = ValidIds(ev.list[c])
C9_Witness ==
    \E c \in Colls :
      /\ IsRefresh /\ ev.owed[c] /\ ev.cycle[c]
      /\ ev.same[c] /\ ev.prevClean[c] /\ ~ev.periodic[c]
      /\ ev.fetched[c] = {1, 2} /\ ValidIds(ev.list[c]) = {1, 2}

\* C10: a cycle whose counter is a multiple of 12 sends a detail request for
\* every entry with an id, so no id stays listed for 12 cycles in a row
\* without a detail request.
C10_PeriodicFullRefresh ==
    \A c \in Colls :
      /\ (IsRefresh /\ ev.cycle[c] /\ ev.periodic[c]) =>
            ev.fetched[c] = ValidIds(ev.list[c])
      /\ \A i \in Ids : sinceFetch[c][i] < RefreshPeriod
C10_Witness ==
    \E c \in Colls :
      /\ IsRefresh /\ ev.cycle[c] /\ ev.periodic[c]
      /\ refresh_counter[c] = RefreshPeriod
      /\ ev.same[c] /\ ev.prevClean[c] /\ ~ev.forced[c]
      /\ ev.fetched[c] = {1, 2}

\* C11: when a detail fetch for an id fails in a refresh cycle, the cached
\* detail and the cached signature of that id stay as they were, and the next
\* refresh cycle of the collection that lists the id sends a detail request
\* for it again.
C11_FailedFetchRetried ==
    [][\A c \in Colls : \A i \in Ids :
          /\ (ev'.op = "get_with_details" /\ i \in ev'.failed[c]) =>
                /\ Get(detail_cache'[c], i) = Get(detail_cache[c], i)
                /\ Get(signature_cache'[c], i) = Get(signature_cache[c], i)
          /\ (ev.op = "get_with_details" /\ i \in ev.failed[c]
               /\ ev'.op = "get_with_details" /\ ev'.cycle[c]
               /\ i \in ValidIds(ev'.list[c])) => i \in ev'.fetched[c]]_vars

\* C12: a poll's layer refresh and a write operation's layer refresh never
\* interleave: at most one execution of async_get_layers_with_details is in
\* flight at any moment, and no cache entry is written from an older list read
\* after it was written from a newer one.
C12_SingleInFlight ==
    /\ Cardinality({t \in Tasks : flight[t].pc # "idle"}) <= 1
    /\ ~reads.stale

\* C13: in a merged input record, a key present in both the list entry and
\* the cached detail carries the list entry's value.
C13_ListFieldsWin ==
    (Done("merge_input") /\ IsSome(call.args.detail)) =>
        \A k \in (DOMAIN call.args.list) \cap (DOMAIN call.args.detail[1]) :
            call.out[1][k] = call.args.list[k]

\* C14 as stated: in a merged layer record, audioStatus is the audioStatus of the list
\* entry read in the same cycle, never one taken from a detail record.
C14_AudioStatusFromList ==
    Done("merge_layer") =>
        Get(call.out[1], "audioStatus") = Get(call.args.list, "audioStatus")
\* C14, amended: when the list entry carries an audioStatus mapping, the
\* merged layer record carries that mapping whatever the detail record holds;
\* when it carries none (the key is missing or null), the merged record
\* carries the audioStatus of the cached detail if that has the key.
C14_AudioStatusOverride ==
    Done("merge_layer") =>
        LET list == call.args.list
            detail == IF IsSome(call.args.detail) THEN call.args.detail[1] ELSE EmptyDict
            listed == Get(list, "audioStatus")
        IN Get(call.out[1], "audioStatus") =
              IF IsSome(listed) /\ listed[1] \in AudioDicts THEN listed
              ELSE IF "audioStatus" \in DOMAIN detail THEN Get(detail, "audioStatus")
              ELSE listed
C14_Witness ==
    /\ Done("merge_layer")
    /\ Get(call.args.list, "audioStatus") = Some("{isOpen:1}")
    /\ IsSome(call.args.detail)
    /\ Get(call.args.detail[1], "audioStatus") = Some("{isOpen:0}")
    /\ Get(call.out[1], "audioStatus") = Some("{isOpen:1}")

\* the ids of the layers whose audioStatus.isOpen is 1
OpenLayerIds(layers) ==
    {layers[k].id : k \in {j \in DOMAIN layers : layers[j].id # NoId
                                                  /\ layers[j].audio # NoAudio
                                                  /\ layers[j].audio[2] = 1}}

\* C15: the snapshot's audio_input_id is the lowest id among the layers with
\* audioStatus.isOpen = 1, or none when no layer is open, whatever input id
\* the screen-detail audio block or the audio detail read reports.
C15_InputIdFromLayers ==
    Done("get_audio_state") =>
        LET open == OpenLayerIds(call.args.layers)
        IN /\ open = {} => call.out[1].input_id = <<>>
           /\ open # {} => /\ IsSome(call.out[1].input_id)
                           /\ call.out[1].input_id[1] \in open
                           /\ \A i \in open : call.out[1].input_id[1] <= i
C15_Witness ==
    /\ Done("get_audio_state")
    /\ OpenLayerIds(call.args.layers) = {}
    /\ IsSome(call.args.screen) /\ IsSome(call.args.screen[1].audio)
    /\ call.args.screen[1].audio[1].input_id = Some(7)
    /\ IsSome(call.args.detail) /\ call.args.detail[1].input_id = Some(5)
    /\ call.out[1].input_id = <<>>

\* C16: when the audio list read yields a non-empty list of output options,
\* the snapshot's audio_outputs is that list, whatever output lists the
\* screen-detail audio block and the audio detail read carry.
C16_ListOptionsWin ==
    (Done("get_audio_state") /\ IsSome(call.args.list)
        /\ call.args.list[1].outputs # <<>>) =>
            call.out[1].outputs = call.args.list[1].outputs

\* C17: the candidates are requested in list order, one at a time; the value
\* returned is the response of the first candidate that answers non-null, no
\* candidate after it is requested, and the value is null exactly when every
\* candidate answered null.  set_audio_output returns true iff it is non-null.
C17_FirstSuccessInOrder ==
    Done("set_audio_output") =>
        LET candidates == AudioOutputCandidates(call.args.has_audio)
            answer == call.args.answer
            out == call.out[1]
            good == {k \in DOMAIN candidates : IsSome(answer[candidates[k]])}
            n == Len(out.sent)
        IN /\ n <= Len(candidates)
           /\ out.sent = SubSeq(candidates, 1, n)
           /\ \A k \in 1..(n - 1) : k \notin good
           /\ good = {} => n = Len(candidates) /\ out.result = <<>> /\ ~out.ret
           /\ good # {} => n \in good /\ out.result = answer[candidates[n]] /\ out.ret
C17_Witness ==
    /\ Done("set_audio_output")
    /\ call.args.has_audio
    /\ call.out[1].sent = SubSeq(AudioOutputCandidates(TRUE), 1, 4)
    /\ call.out[1].ret
    /\ call.out[1].result = Some("audio/writeOutput:outputChannelMode")
    /\ IsSome(call.args.answer["audio/write:audioOutputId"])

\* C18: a call of _async_request makes one POST and raises nothing; it
\* returns null when the HTTP status is not 200, when the parsed JSON has
\* status # 0 and when a network, timeout or parse error occurs; for HTTP 200
\* with status 0 it returns a non-null mapping or sequence.
C18_Transport ==
    Done("request") =>
        LET r == call.args.response
            out == call.out[1]
            success == ~r.failure /\ r.http_status = HttpOk /\ r.json = "dict"
                       /\ r.api_status = Some(ApiOk)
        IN /\ out.posts = 1 /\ ~out.raised
           /\ ~success => out.value = <<>>
           /\ success => /\ IsSome(out.value)
                         /\ out.value[1] \in {"dict", "list", "empty_dict"}

\* v is x brought into 0..100
Clamped(v, x) ==
    /\ v \in 0..100
    /\ x \in 0..100 => v = x
    /\ x < 0 => v = 0
    /\ x > 100 => v = 100

\* C19: the brightness in the screen/writeBrightness payload is
\* max(0, min(100, brightness)), and every volume value in every candidate
\* payload of set_audio_volume is max(0, min(100, volume)).
C19_LevelsClamped ==
    /\ Done("set_brightness") =>
          Clamped(call.out[1].payload.brightness, call.args.brightness)
    /\ Done("set_audio_volume") =>
          \A k \in DOMAIN call.out[1].candidates :
            LET volumes == call.out[1].candidates[k].volumes
            IN /\ "volume" \in DOMAIN volumes
               /\ \A key \in (DOMAIN volumes) \cap {"volume", "outputVolume"} :
                     Clamped(volumes[key], call.args.volume)
C19_Witness ==
    /\ Done("set_brightness")
    /\ call.args.brightness = 150
    /\ call.out[1].payload.brightness = 100
    /\ call.out[1].ret

\* C20: with encryption disabled, two payloads signed at the same timestamp
\* get the same sign value, base64(hex_md5(T + projectId)), and each body is
\* its payload unchanged.
C20_SignIgnoresPayload ==
    (Done("build_request") /\ ~call.args.client.encryption) =>
        LET sign == Base64(HexMd5(call.args.timestamp \o call.args.client.project_id))
        IN /\ call.out[1][1].sign = sign /\ call.out[1][2].sign = sign
           /\ call.out[1][1].body = call.args.body1
           /\ call.out[1][2].body = call.args.body2
C20_Witness ==
    /\ Done("build_request") /\ ~call.args.client.encryption
    /\ call.args.body1 # call.args.body2
    /\ call.args.client.project_id = <<"7">>
    /\ call.out[1][1].sign = call.out[1][2].sign
    /\ call.out[1][1].body # call.out[1][2].body

\* C21: with encryption enabled and pyDes importable, decrypting what
\* _encrypt_body returned for a payload gives the payload back
C21_CodecRoundTrip ==
    (Done("codec") /\ call.args.client.encryption /\ call.args.client.des = "ok")
        => call.out[1].decrypted = DictV(call.args.body)
\* a payload with an escaped string went through the cipher as a str
C21_Witness ==
    /\ Done("codec")
    /\ call.args.client.encryption
    /\ call.args.client.des = "ok"
    /\ call.out[1].encrypted.kind = "str"
    /\ Len(call.out[1].encrypted.str) >= 24
    /\ \E i \in 1..Len(call.args.body) :
          call.args.body[i].str = <<"a", "\"", "b", "\\", "c">>

\* every sub-request of the call failed or answered with a mapping
MappingAnswers ==
    \A k \in {"screens", "presets", "play", "brightness", "device"} :
        call.args[k] = <<>> \/ call.args[k][1].kind = "dict"

C23_FetchIffShouldRefresh ==
    [][\A c \in Colls :
          (ev'.op = "get_with_details" /\ ev'.cycle[c]) =>
             \A k \in 1..Len(ev'.list[c]) :
                LET e == ev'.list[c][k] IN
                IsValidId(e) =>
                   /\ e.id \in ev'.fetched[c] <=>
                         \/ force_refresh_details[c]
                         \/ (refresh_counter[c] + 1) % 12 = 0
                         \/ Get(signature_cache[c], e.id) # Some(Signature(c, e))
                   /\ (e.id \in ev'.fetched[c] \ ev'.failed[c]) =>
                         /\ e.id \in DOMAIN detail_cache'[c]
                         /\ Get(signature_cache'[c], e.id) = Some(Signature(c, e))]_vars
\* a cycle, neither forced nor periodic, that fetched the detail of one entry
\* because its signature changed and left the other entry alone
C23_Witness ==
    \E c \in Colls :
      /\ IsRefresh /\ ev.cycle[c] /\ ~ev.forced[c] /\ ~ev.periodic[c]
      /\ ValidIds(ev.list[c]) = {1, 2}
      /\ Cardinality(ev.fetched[c]) = 1
      /\ ev.failed[c] = {}
      /\ ev.fetched[c] \subseteq DOMAIN detail_cache[c]

\* C24: a refresh whose list read is empty or fails returns an empty result
\* and leaves the detail cache, the signature cache, the refresh counter and
\* the force-refresh flag of its collection as they were.
C24_EmptyListTouchesNothing ==
    [][\A c \in Colls :
          (ev'.op = "get_with_details" /\ ev'.coll = c /\ ev'.list[c] = <<>>) =>
             /\ ev'.merged[c] = <<>>
             /\ detail_cache'[c] = detail_cache[c]
             /\ signature_cache'[c] = signature_cache[c]
             /\ refresh_counter'[c] = refresh_counter[c]
             /\ force_refresh_details'[c] = force_refresh_details[c]]_vars
\* an empty list read met filled caches and a set flag, and they are still there
C24_Witness ==
    \E c \in Colls :
      /\ ev.op = "get_with_details" /\ ev.coll = c /\ ev.list[c] = <<>>
      /\ DOMAIN detail_cache[c] = {1, 2}
      /\ DOMAIN signature_cache[c] = {1, 2}
      /\ refresh_counter[c] > 0
      /\ force_refresh_details[c]

\* C25: the force-refresh flag is a one-shot trigger.  A cycle with a
\* non-empty list reads the flag and leaves it reset, whatever its detail
\* requests return; a set flag makes it request every entry with an id; and
\* the cycle that follows a forced one with no write in between requests no
\* detail when its counter is no multiple of 12 and every entry's signature
\* is the cached one.
C25_OneShotFlag ==
    [][\A c \in Colls :
          (ev'.op = "get_with_details" /\ ev'.coll = c /\ ev'.cycle[c]) =>
             /\ ev'.forced[c] = force_refresh_details[c]
             /\ ~force_refresh_details'[c]
             /\ ev'.forced[c] => ev'.fetched[c] = ValidIds(ev'.list[c])
             /\ (/\ ev.op = "get_with_details" /\ ev.coll = c
                 /\ ev.cycle[c] /\ ev.forced[c]
                 /\ ~ev'.periodic[c]
                 /\ \A k \in 1..Len(ev'.list[c]) :
                       IsValidId(ev'.list[c][k]) =>
                          Get(signature_cache[c], ev'.list[c][k].id)
                             = Some(Signature(c, ev'.list[c][k])))
                => ev'.fetched[c] = {}]_vars
\* the cycle after a forced one saw the same two entries and requested nothing
C25_Witness ==
    \E c \in Colls :
      /\ ev.op = "get_with_details" /\ ev.coll = c /\ ev.cycle[c]
      /\ ev.afterForced[c] /\ ~ev.forced[c] /\ ~ev.periodic[c]
      /\ ev.same[c] /\ ValidIds(ev.list[c]) = {1, 2}
      /\ ev.fetched[c] = {}
      /\ ~force_refresh_details[c]

\* the orders in which n entries can be arranged
Orders(n) == {p \in [1..n -> 1..n] : \A j, k \in 1..n : p[j] = p[k] => j = k}

\* C26: the merged list of a refresh holds exactly one record for each entry
\* of the list read, and its records are in ascending order of id, in
\* whatever order the device listed the entries.
C26_OneRecordEachSorted ==
    \A c \in Colls :
      (IsRefresh /\ ev.cycle[c]) =>
         LET m == ev.merged[c]
             l == ev.list[c]
         IN /\ Len(m) = Len(l)
            /\ \E p \in Orders(Len(l)) :
                  \A k \in 1..Len(l) :
                     /\ m[k].id = l[p[k]].id
                     /\ m[k].fields = l[p[k]].fields
                     /\ m[k].audio = l[p[k]].audio
            /\ \A j, k \in 1..Len(m) :
                  (j < k /\ IsValidId(m[j]) /\ IsValidId(m[k])) => m[j].id <= m[k].id
\* a list read with id 2 before id 1 came back with id 1 before id 2
C26_Witness ==
    \E c \in Colls :
      /\ IsRefresh /\ ev.cycle[c]
      /\ Len(ev.list[c]) = 3 /\ Len(ev.merged[c]) = 3
      /\ ev.list[c][2].id = 2 /\ ev.list[c][3].id = 1
      /\ ev.merged[c][2].id = 1 /\ ev.merged[c][3].id = 2

\* the number of verifications made before request p of log L
PhaseOf(L, p) == Cardinality({i \in 1..(p - 1) : L[i].kind = "verify"})
Kinds(L) == [k \in 1..Len(L) |-> L[k].kind]

\* C27: the order of the requests of set_audio_input.  In the first attempt
\* the closing writes come before the opening write of the selected layer;
\* the reversed attempt (open, then close) is made only after a failed
\* verification, the screen-level writes only after two failed verifications;
\* every attempt is followed by a verification, and a verification that
\* succeeds is the last request.
C27_PhaseOrder ==
    Done("set_audio_input") =>
       LET L == call.out[1].log IN
       /\ L[1].kind = "read"
       /\ Len(L) > 1 => L[Len(L)].kind = "verify"
       /\ \A p \in 1..Len(L) :
             LET before == {i \in 1..(p - 1) : L[i].kind = "verify"} IN
             /\ L[p].kind = "close" => L[p].id # ev.arg /\ PhaseOf(L, p) \in {0, 1}
             /\ L[p].kind = "open" => L[p].id = ev.arg /\ PhaseOf(L, p) \in {0, 1}
             /\ (L[p].kind = "close" /\ PhaseOf(L, p) = 0) =>
                   \A q \in 1..(p - 1) : L[q].kind # "open"
             /\ (L[p].kind = "open" /\ PhaseOf(L, p) = 1) =>
                   \A q \in 1..(p - 1) : L[q].kind = "close" => PhaseOf(L, q) = 0
             /\ L[p].kind = "retry_read" => PhaseOf(L, p) = 1
             /\ L[p].kind = "screen_write" => PhaseOf(L, p) = 2
             /\ PhaseOf(L, p) <= 2
             /\ p > 1 => \A i \in before : ~L[i].ok
\* all three attempts were made, each with its writes and its verification
C27_Witness ==
    /\ Done("set_audio_input")
    /\ Kinds(call.out[1].log) = <<"read", "close", "open", "verify", "retry_read", "open",
                        "close", "verify", "screen_write", "verify">>

\* C28: when the last verification of set_audio_input does not find the
\* selected layer to be the open one, the call returns false and does not
\* raise, whatever attempts were made and whichever writes succeeded.
C28_UnverifiedReturnsFalse ==
    (/\ Done("set_audio_input")
     /\ IsSome(ev.verified)
     /\ _selected_audio_input_from_layers(ev.verified[1]) # Some(ev.arg))
        => ~ev.ret /\ ~ev.raised
\* every write of the three attempts succeeded and the last verification
\* still found another layer
C28_Witness ==
    /\ Done("set_audio_input")
    /\ IsSome(ev.verified)
    /\ _selected_audio_input_from_layers(ev.verified[1]) # Some(ev.arg)
    /\ ~ev.ret
    /\ Kinds(call.out[1].log) = <<"read", "close", "open", "verify", "retry_read", "open",
                        "close", "verify", "screen_write", "verify">>
    /\ \A p \in 1..Len(call.out[1].log) :
          call.out[1].log[p].kind \in {"close", "open", "screen_write"} => call.out[1].log[p].ok

\* the ids of the layers of a merged list with audioStatus.isAvailable = 1
EligibleIds(layers) ==
    {layers[k].id : k \in {j \in 1..Len(layers) :
                              IsValidId(layers[j]) /\ IsAvailable(layers[j].audio)}}

\* C29: set_audio_input(X) sends no write request and returns false when no
\* layer is eligible or X is not the id of an eligible layer; its only
\* requests are those of the first layer refresh.
C29_NoWriteWhenIneligible ==
    (Done("set_audio_input") /\ ev.arg \notin EligibleIds(call.out[1].first)) =>
        /\ ~ev.ret
        /\ Kinds(call.out[1].log) = <<"read">>
\* another layer was eligible and open, the selected one was not eligible
C29_Witness ==
    /\ Done("set_audio_input")
    /\ ev.arg = 2
    /\ EligibleIds(call.out[1].first) = {1}
    /\ Len(call.out[1].first) = 2 /\ IsOpen(call.out[1].first[2].audio)
    /\ ~ev.ret
    /\ Kinds(call.out[1].log) = <<"read">>

\* the keys a handler sets and the value they get
NewKeys == IF call.fn = "audio_output" THEN {"outputChannelMode"}
           ELSE {"volume", "outputVolume"}
NewValue == IF call.fn = "audio_output" THEN call.args.value
            ELSE Clamp(call.args.value)
FixedCandidates ==
    IF call.fn = "audio_output"
    THEN OutputCandidates(PayloadBase(call.args.screen_id, 0), NewValue)
    ELSE VolumeCandidates(PayloadBase(call.args.screen_id, 0), NewValue)

\* C30: set_audio_output and set_audio_volume first read screen/readDetail.
\* When the answer holds an audio mapping, the first write request is
\* screen/writeDetail with every key of that mapping unchanged except
\* outputChannelMode (volume and outputVolume), which hold the new value;
\* when it holds none, that candidate is left out.  The other candidates
\* follow in their fixed order until one is accepted.
C30_MergedCandidateFirst ==
    (Done("audio_output") \/ Done("audio_volume")) =>
       LET o == call.out[1]
           read == call.args.read
           n == Len(o.requests) - 1
       IN /\ o.requests[1] = ReadDetailRequest(PayloadBase(call.args.screen_id, 0))
          /\ n >= 1
          /\ \A k \in 1..n : o.requests[k + 1] = o.candidates[k]
          /\ n = IF call.args.first_ok \in 1..Len(o.candidates)
                 THEN call.args.first_ok ELSE Len(o.candidates)
          /\ o.ret = (call.args.first_ok \in 1..Len(o.candidates))
          /\ read.kind = "dict" =>
                /\ o.requests[2].endpoint = "screen/writeDetail"
                /\ o.requests[2].key = "audio"
                /\ \A k \in AudioKeys :
                      o.requests[2].audio[k] =
                          IF k \in NewKeys THEN NewValue ELSE read.audio[k]
                /\ Tail(o.candidates) = FixedCandidates
          /\ read.kind # "dict" => o.candidates = FixedCandidates
\* a volume write on a screen whose audio mapping holds a mode, an output
\* channel and other volume values; the device refuses the merged candidate
C30_Witness ==
    /\ Done("audio_volume")
    /\ call.args.value = 150
    /\ call.args.read.kind = "dict"
    /\ call.args.read.audio = [mode |-> 7, outputChannelMode |-> 7, volume |-> 0,
                               outputVolume |-> Absent]
    /\ call.args.first_ok = 3
    /\ Len(call.out[1].requests) = 4
    /\ call.out[1].requests[2].audio = [mode |-> 7, outputChannelMode |-> 7,
                                        volume |-> 100, outputVolume |-> 100]
    /\ call.out[1].ret

\* C31: a successful set_background sets the flag that makes the next
\* get_background_list request bkg/readAllList; with the flag clear and a
\* non-empty cached list the request is made exactly on the calls whose
\* counter is a multiple of 12, and a call without a request returns the
\* cached list as it was.
C31_BackgroundCache ==
    [][/\ (ev'.op = "set_background" /\ ev'.writeOk) => force_refresh_backgrounds'
       /\ (force_refresh_backgrounds /\ ev'.op # "get_background_list")
             => force_refresh_backgrounds'
       /\ ev'.op = "get_background_list" =>
             /\ force_refresh_backgrounds => ev'.requested
             /\ (~force_refresh_backgrounds /\ background_list_cache # <<>>) =>
                   (ev'.requested <=> background_refresh_counter' % RefreshPeriod = 0)
             /\ ~ev'.requested =>
                   /\ ev'.returned = background_list_cache
                   /\ background_list_cache' = background_list_cache]_vars
\* a forced request on a call that is not periodic, with a list in the cache
C31_Witness ==
    /\ ev.op = "get_background_list"
    /\ ev.requested
    /\ background_refresh_counter = 5
    /\ ev.returned = <<1, 2>>
    /\ ~force_refresh_backgrounds

\* C32: after a successful set_background(id, enabled) the snapshot of the
\* next poll cycle has background_id = id and background_enabled = enabled.
C32_BackgroundInSnapshot ==
    [][(ev.op = "set_background" /\ ev.writeOk /\ ev'.op = "poll") =>
          /\ data'[1].background_id = ev.arg
          /\ data'[1].background_enabled = ev.req]_vars

\* C33: whichever entity made the last successful screen/ftb write, the FTB
\* switch or the media player, the snapshot of the refresh that follows has
\* ftb_active equal to the value written.
C33_FtbTrackedByAllWriters ==
    (ev.op \in {"poll", "media_player"} /\ IsSome(data)) =>
        data[1].ftb_active = lastWritten.ftb

\* C34: in every snapshot of get_state brightness lies in 0..100 and
\* audio_volume is none or lies in 0..100, whatever the device reports.
C34_LevelsInRange ==
    (Done("get_state") /\ ~call.out[1].raised) =>
        /\ call.out[1].brightness \in 0..100
        /\ call.out[1].audio_volume = <<>> \/ call.out[1].audio_volume[1] \in 0..100

\* the cipher cannot be used: pyDes is missing or des() refuses the key
CipherFails(c) == c.des = "import_error" \/ ~ValidKey(DesKey(c.secret_key))
\* b64decode, decrypt, decode or json.loads raises on the reply
DecryptRaises(c, reply) ==
    LET encrypted == B64Decode(reply.str)
        decrypted == DesDecrypt(DesKey(c.secret_key), encrypted.bytes)
        text == Utf8Decode(decrypted.bytes)
    IN ~(encrypted.ok /\ decrypted.ok /\ text.ok /\ Loads(text.str).ok)

\* C35: with encryption enabled, when the cipher is missing or raises,
\* _encrypt_body returns the payload mapping itself and the request is built
\* with that mapping as body and signed over its JSON text; _decrypt_body
\* returns an empty mapping when the cipher is missing or when decoding,
\* decrypting or parsing the reply raises.
C35_CipherFailureFallsBack ==
    LET c == call.args.client IN
    /\ (Done("build") /\ c.encryption /\ CipherFails(c)) =>
          /\ call.out[1].encrypted = DictV(call.args.body)
          /\ call.out[1].request.body = DictV(call.args.body)
          /\ call.out[1].request.sign =
                Base64(HexMd5(Dumps(call.args.body) \o call.args.timestamp
                              \o c.project_id \o c.secret_key))
          /\ call.out[1].request.pId = c.project_id
          /\ call.out[1].request.timeStamp = call.args.timestamp
    /\ (Done("decrypt") /\ c.encryption
          /\ (CipherFails(c) \/ DecryptRaises(c, call.args.reply))) =>
          call.out[1] = DictV(<<>>)
\* des() refuses a key of nine bytes and the request goes out unencrypted
C35_Witness ==
    /\ Done("build")
    /\ call.args.client.encryption
    /\ call.args.client.des = "ok"
    /\ call.args.client.secret_key = <<"s", "e", "c", "r", "e", "t", "k", NonAscii>>
    /\ call.args.body = <<Member(Key_deviceId, IntV(7))>>
    /\ call.out[1].request.body = DictV(call.args.body)

\* the hosts probed so far have been probed once, the others not yet
ProbedOnce(s) ==
    \A i \in 1..Len(s.hosts) :
        s.probes[i] = (IF s.status[i] \in {"probing", "done"} THEN 1 ELSE 0)
\* the devices a scan of the hosts has to report
RECURSIVE Succeeded(_)
Succeeded(hosts) ==
    IF hosts = <<>> THEN <<>>
    ELSE (IF Head(hosts).connect = "open"
             /\ (Head(hosts).api = "status" \/ Head(hosts).server = "gunicorn")
          THEN <<[host |-> Head(hosts).addr, name |-> <<"Novastar @ ", Head(hosts).addr>>]>>
          ELSE <<>>)
         \o Succeeded(Tail(hosts))

\* C36: during a scan at most 50 probes are in flight and no host is probed
\* twice; when scan_network returns every host has been probed exactly once
\* and the list returned holds exactly the devices whose probe succeeded;
\* every scan that was started returns.
C36_ScanBoundedAndComplete ==
    /\ [](/\ Cardinality(InFlight(scan)) <= 50
          /\ ProbedOnce(scan)
          /\ scan.pc = "returned" =>
                /\ \A i \in 1..Len(scan.hosts) : scan.probes[i] = 1
                /\ scan.discovered = Succeeded(scan.hosts))
    /\ (scan.pc = "gather" ~> scan.pc = "returned")
\* a scan of more than 50 hosts returned, hosts that timed out among them
C36_Witness ==
    /\ scan.pc = "returned"
    /\ Len(scan.hosts) > 50
    /\ \E i \in 1..Len(scan.hosts) : scan.hosts[i].connect = "timeout"
    /\ \E i \in 51..Len(scan.hosts) : IsSome(scan.results[i])
    /\ Len(scan.discovered) > 0

\* the entries a service call with this host argument can mean: the entry
\* with the named host, or the only entry when no host is named
Candidates(entries, host_arg) ==
    IF IsSome(host_arg) /\ Strip(host_arg[1]) # <<>>
    THEN {i \in 1..Len(entries) : entries[i].host = Strip(host_arg[1])}
    ELSE 1..Len(entries)
\* allow_raw_commands as configured for the entry: its options before its data
AllowsRaw(entry) ==
    /\ entry.registered
    /\ \/ entry.options = <<TRUE>>
       \/ entry.options = <<>> /\ entry.data = <<TRUE>>

\* C37: a request is sent exactly when one entry is resolved and raw
\* commands are enabled in its configuration, and it goes to that entry's
\* client; otherwise the service returns ok = false and sends nothing.
C37_RawCommandGated ==
    Done("send_raw_command") =>
        LET cands == Candidates(call.args.entries, call.args.host)
            o == call.out[1]
        IN /\ IsSome(o.sent) =>
                /\ Cardinality(cands) = 1
                /\ \E i \in cands : /\ call.args.entries[i].eid = o.sent[1]
                                    /\ AllowsRaw(call.args.entries[i])
           /\ (Cardinality(cands) # 1
                 \/ \E i \in cands : ~AllowsRaw(call.args.entries[i])) =>
                /\ o.ok = FALSE
                /\ o.sent = <<>>
\* two entries, the call names the second one, whose options disable what
\* its data enabled: nothing is sent although the first entry allows it
C37_Witness ==
    /\ Done("send_raw_command")
    /\ Len(call.args.entries) = 2
    /\ call.args.host = Some(<<" ", "b", " ">>)
    /\ AllowsRaw(call.args.entries[1])
    /\ call.args.entries[2].data = <<TRUE>>
    /\ call.args.entries[2].options = <<FALSE>>
    /\ call.out[1].ok = FALSE
    /\ call.out[1].sent = <<>>

\* the ids of the entries of a list that have one
ListedIds(entries) == {entries[k].id : k \in {j \in 1..Len(entries) : IsValidId(entries[j])}}

\* C38: a successful load_preset or set_layer_source is not lost among
\* interleaved layer refreshes: until a cycle with a non-empty list has read
\* the flag it stays set, and the cycle that reads it requests the detail of
\* every id of its list, each request after the write completed.
C38_ForcedRefreshNotLost ==
    /\ \A c \in Colls : writePending[c] => force_refresh_details[c]
    /\ \A t \in Tasks :
          (flight[t].pc = "detail" /\ flight[t].owed) =>
              ListedIds(SubSeq(flight[t].entries, 1, flight[t].k)) \subseteq flight[t].fetched
    /\ (ev.op = "layers_with_details" /\ ev.cycle["layer"] /\ ev.owed["layer"]) =>
          ListedIds(ev.list["layer"]) \subseteq ev.fetched["layer"]
\* a write succeeded while one cycle was suspended at a detail request,
\* after it had read the flag; the cycle of the other coroutine read its
\* list later and has requested the details of both ids it lists
C38_Witness ==
    \E a \in Tasks, b \in Tasks :
      /\ flight[a].pc = "detail" /\ ~flight[a].owed
      /\ flight[b].pc = "detail" /\ flight[b].owed
      /\ flight[a].readNo < flight[b].readNo
      /\ ~flight[b].periodic
      /\ flight[b].fetched = {1, 2}

\* C39: the snapshot a refresh publishes has the ftb and freeze values of
\* the last successful coordinator write, also when that write completed
\* while the refresh was suspended inside get_state.
C39_PollPublishesLastWrite ==
    ev.op \in {"poll", "poll_flags_changed"} =>
        /\ IsSome(published)
        /\ published = data
        /\ published[1].ftb_active = lastWritten.ftb
        /\ published[1].freeze_active = lastWritten.freeze
\* writes changed the tracked flags while the refresh was in flight and the
\* snapshot it published has both flags set
C39_Witness ==
    /\ ev.op = "poll_flags_changed"
    /\ published[1].ftb_active
    /\ published[1].freeze_active

\* C40: for inputs and for layers the detail cache and the signature cache
\* hold entries for the same ids.
C40_CachesHaveSameIds ==
    \A c \in Colls : DOMAIN detail_cache[c] = DOMAIN signature_cache[c]
\* a cycle removed the entries of an id that is no longer listed and kept
\* those of another id
C40_Witness ==
    \E c \in Colls :
      /\ ev.cycle[c]
      /\ ev.pruned[c] # {}
      /\ DOMAIN detail_cache[c] # {}
      /\ DOMAIN signature_cache[c] # {}

====
